---- MODULE Spec2Model ----
(***************************************************************************)
(* The authenticated request pipeline of insights_sdk: AuthClient          *)
(* (token cache, validity test, token exchange with retry) and             *)
(* InsightsClient._post (retrying POST that asks AuthClient for a token    *)
(* in every attempt), together with the clock both read.                   *)
(*                                                                         *)
(* The object under study is either an AuthClient used on its own or an   *)
(* InsightsClient, which owns an AuthClient (variable component).          *)
(*                                                                         *)
(* Time is counted in whole seconds; retry_backoff is a whole number of    *)
(* seconds.  HTTP status codes are integers, exception classes and tokens  *)
(* are strings.  The token endpoint never issues the empty string as a     *)
(* token.                                                                  *)
(***************************************************************************)
EXTENDS Integers, Sequences, FiniteSets, TLC

\* ------------------------------------------------------------- bounds
MaxRetriesBound == 2      \* max_retries is drawn from -1 .. MaxRetriesBound
MaxBackoff == 2           \* retry_backoff is 1 or MaxBackoff
MaxTime == 2              \* callers start operations, and idle time passes, up to here
MaxConns == 2             \* close() is called while the client made fewer connections

\* ---------------------------------------------------- program constants
TOKEN_BUFFER == 60
DEFAULT_EXPIRES_IN == 900

RETRYABLE_EXCEPTIONS ==
    {"ConnectTimeout", "ReadTimeout", "WriteTimeout", "ConnectError", "RemoteProtocolError"}

RETRYABLE_STATUS_CODES == {429, 500, 502, 503, 504}

\* ------------------------------------------------- inputs (environment)
None == "None"
Tasks == {1, 2}
SyncTasks == {1}
Bodies == {"B1", "B2"}          \* JSON bodies of the resource endpoint
NotJson == "<html>"             \* a body that response.json() cannot parse
Statuses == {200, 204, 401, 500, 503}
TransportErrors == {"ConnectTimeout", "ReadTimeout", "PoolTimeout"}

\* The bodies the token endpoint may answer with: a JSON object that has both
\* keys, one that lacks expires_in, one that lacks access_token, one whose
\* expires_in is not a number but a string (written as the field
\* expires_in_text), and a body that is not JSON (the record with the one
\* field not_json).
TokenBodies ==
    {[access_token |-> "T1", expires_in |-> 60],
     [access_token |-> "T2", expires_in |-> 61],
     [access_token |-> "T1"],
     [expires_in |-> 61],
     [access_token |-> "T2", expires_in_text |-> "3600"],
     [not_json |-> TRUE]}

VARIABLES
    component,        \* the object constructed: "AuthClient" or "InsightsClient"
    max_retries,      \* self.max_retries (an InsightsClient hands its own to its AuthClient)
    retry_backoff,    \* self.retry_backoff
    access_token,     \* AuthClient._access_token
    token_expiry,     \* AuthClient._token_expiry
    client,           \* InsightsClient._client: None or "open"
    open_conns,       \* connection resources the executor created and has not closed
    now,              \* time.time()
    frame,            \* per task: the locals of the call in progress, and what it observed
    last_call,        \* the most recent call a caller made
    twin              \* an AsyncInsightsClient with its AsyncAuthClient, and its tasks

vars == <<component, max_retries, retry_backoff, access_token, token_expiry, client,
          open_conns, now, frame, last_call, twin>>

\* ------------------------------------------------------------ helpers
NoResult == [kind |-> "none", value |-> "", exc |-> "", status |-> 0]
Returned(v) == [kind |-> "return", value |-> v, exc |-> "", status |-> 0]
Raised(e, s) == [kind |-> "raise", value |-> "", exc |-> e, status |-> s]

\* How one attempt of a retry loop ended: with a response (its status) or
\* with an exception (its class), of the resource or of the token endpoint.
NoOutcome == [src |-> "", kind |-> "none", status |-> 0, exc |-> ""]
StatusOutcome(src, s) == [src |-> src, kind |-> "status", status |-> s, exc |-> ""]
ExcOutcome(src, e, s) == [src |-> src, kind |-> "exc", status |-> s, exc |-> e]

\* The class of an outcome after which the loop of endpoint src went round again.
RetryClass(src, o) ==
    IF o.src = src /\ o.kind = "status" /\ o.status \in RETRYABLE_STATUS_CODES
    THEN "status"
    ELSE IF o.src = src /\ o.kind = "exc" /\ o.exc \in RETRYABLE_EXCEPTIONS
    THEN "exc"
    ELSE "other"

\* The history of a retry loop: last is the outcome of the latest attempt and
\* prefix tells how all the attempts before the latest ended: "none" (there are none), "status"
\* (each with a retryable status of the loop's endpoint), "exc" (each with a
\* retryable exception of the loop's endpoint) or "other".
NoHistory == [prefix |-> "none", last |-> NoOutcome]
Record(h, src, o) ==
    [prefix |-> IF h.last.kind = "none" THEN "none"
                ELSE IF h.prefix \in {"none", RetryClass(src, h.last)}
                THEN RetryClass(src, h.last)
                ELSE "other",
     last |-> o]

\* A call a caller made; of an invalidate_token() also what it found.
Called(name) == [name |-> name, had_token |-> FALSE, was_valid |-> FALSE]

IdleFrame ==
    [pc |-> "idle", op |-> "none",
     attempt |-> 0, last_exception |-> None,
     auth_attempt |-> 0, auth_last_exception |-> None,
     backoff |-> 0, hdr_token |-> None, auth_conn |-> FALSE,
     res_reqs |-> 0, tok_reqs |-> 0,
     post_sleeps |-> <<>>, auth_sleeps |-> <<>>,
     post_hist |-> NoHistory, auth_hist |-> NoHistory,
     body_json |-> FALSE, body_token |-> None, body_ttl |-> 0, recv_at |-> 0,
     resp_body |-> None, tok_chain |-> 0,
     pre_token |-> None, pre_expiry |-> 0, start_at |-> 0,
     prev_call |-> Called(""),
     result |-> NoResult, done_at |-> 0]

\* variant: the initial backoff is left out of the product
BackoffNoBase(attempt) == 2 ^ attempt

\* backoff = self.retry_backoff * (2 ** attempt)
Backoff(attempt) == retry_backoff * (2 ^ attempt)

\* variant: the loop makes one attempt less
InRangeOneLess(attempt) == attempt < max_retries

\* for attempt in range(self.max_retries + 1)
InRange(attempt) == attempt < max_retries + 1

\* variant: the retry test admits one attempt too many
MayRetryInclusive(attempt) == attempt <= max_retries

\* if attempt < self.max_retries
MayRetry(attempt) == attempt < max_retries

\* variant: every error status is retried
IsRetryableStatusAnyError(status) == status >= 400

\* response.status_code in RETRYABLE_STATUS_CODES
IsRetryableStatus(status) == status \in RETRYABLE_STATUS_CODES

\* variant: only the connect errors are caught
IsRetryableExceptionConnectOnly(e) == e \in {"ConnectTimeout", "ConnectError"}

\* variant: KeyError is caught and retried as well
IsRetryableExceptionWithKeyError(e) == e \in RETRYABLE_EXCEPTIONS \cup {"KeyError"}

\* except RETRYABLE_EXCEPTIONS as e
IsRetryableException(e) == e \in RETRYABLE_EXCEPTIONS

\* variant: only 200 counts as a success
IsSuccessOnly200(status) == status = 200

\* response.raise_for_status() raises unless the status is a success (2xx)
IsSuccess(status) == status >= 200 /\ status <= 299

\* variant: the token counts as valid until its expiry, without the buffer
IsTokenValidAtNoBuffer(tok, expiry, t) ==
    IF tok = None \/ tok = "" THEN FALSE ELSE t < expiry

\* variant: the token still counts as valid at the start of the buffer
IsTokenValidAtInclusive(tok, expiry, t) ==
    IF tok = None \/ tok = "" THEN FALSE ELSE t <= (expiry - TOKEN_BUFFER)

\* AuthClient.is_token_valid at clock reading t
IsTokenValidAt(tok, expiry, t) ==
    IF tok = None \/ tok = "" THEN FALSE ELSE t < (expiry - TOKEN_BUFFER)

is_token_valid == IsTokenValidAt(access_token, token_expiry, now)

AllIdle == \A t \in Tasks : frame[t].pc = "idle"

\* ------------------------------------------------- frame transformers
\* Each takes the frame f of the running call and gives the frame after the
\* piece of code it models; the shared state is changed by the actions.

\* the call ends: it returns a value or raises to its caller
Finish(f, res) == [f EXCEPT !.pc = "idle", !.result = res, !.done_at = now]

\* client.py 146-159: except RETRYABLE_EXCEPTIONS as e in _post
PostExcept(f, e) ==
    LET g == [f EXCEPT !.last_exception = e] IN
    IF MayRetry(f.attempt)
    THEN [g EXCEPT !.pc = "post_sleep", !.backoff = Backoff(f.attempt)]
    ELSE Finish(g, Raised(e, 0))

\* variant: an exception that is not retried is swallowed and a default body
\* returned
PostTrySwallows(f, e, s) ==
    IF IsRetryableException(e) THEN PostExcept(f, e) ELSE Finish(f, Returned("B1"))

\* an exception raised inside the try block of _post: caught by the except
\* clause when its class is retryable, and otherwise raised to the caller
PostTry(f, e, s) ==
    IF IsRetryableException(e) THEN PostExcept(f, e) ELSE Finish(f, Raised(e, s))

\* client.py 132-144: the response of the resource endpoint is classified
PostClassify(f, status, body) ==
    IF IsRetryableStatus(status) /\ MayRetry(f.attempt)
    THEN [f EXCEPT !.pc = "post_sleep", !.backoff = Backoff(f.attempt)]
    ELSE IF ~IsSuccess(status)
    THEN PostTry(f, "HTTPStatusError", status)
    ELSE IF body = NotJson
    THEN PostTry(f, "JSONDecodeError", 0)
    ELSE Finish(f, Returned(body))

\* _refresh_token() has returned or raised into _post: its locals are gone
Popped(f) ==
    [f EXCEPT !.auth_attempt = 0, !.auth_last_exception = None, !.tok_reqs = 0,
              !.auth_sleeps = <<>>, !.auth_hist = NoHistory,
              !.body_json = FALSE, !.body_token = None, !.body_ttl = 0, !.recv_at = 0]

\* client.py 126-130: client.post(url, headers=..., json=...) is sent
SendResource(f, tok) ==
    [Popped(f) EXCEPT !.pc = "post_wait", !.hdr_token = tok, !.res_reqs = @ + 1,
                      !.tok_chain = -1]

\* variant: what the cache held when the response arrived is returned
AuthReturnCached(f, tok) ==
    IF f.op = "post" THEN SendResource(f, tok) ELSE Finish(f, Returned(access_token))

\* get_token() / _refresh_token() returns tok to whoever called it
AuthReturn(f, tok) ==
    IF f.op = "post" THEN SendResource(f, tok) ELSE Finish(f, Returned(tok))

\* variant: an error of the token exchange ends _post whatever its class
AuthRaiseEndsPost(f, e, s) ==
    IF f.op = "post"
    THEN Finish([Popped(f) EXCEPT !.post_hist =
                    Record(@, "resource", ExcOutcome("token", e, s))], Raised(e, s))
    ELSE Finish(f, Raised(e, s))

\* variant: after a failed token acquisition the resource request is sent all
\* the same, with whatever the cache holds
AuthRaiseSendsAnyway(f, e, s) ==
    IF f.op = "post"
    THEN SendResource([f EXCEPT !.post_hist =
                          Record(@, "resource", ExcOutcome("token", e, s))], access_token)
    ELSE Finish(f, Raised(e, s))

\* _refresh_token() raises: to the caller of get_token(), or into the try
\* block of _post (through _get_headers)
AuthRaise(f, e, s) ==
    IF f.op = "post"
    THEN PostTry([Popped(f) EXCEPT
                     !.post_hist = Record(@, "resource", ExcOutcome("token", e, s))], e, s)
    ELSE Finish(f, Raised(e, s))

\* auth.py 111-120: _refresh_token() is entered
BeginRefresh(f) ==
    [f EXCEPT !.pc = "auth_loop", !.auth_attempt = 0, !.auth_last_exception = None,
              !.auth_hist = NoHistory, !.auth_sleeps = <<>>, !.tok_reqs = 0]

\* variant: the cache is never consulted
GetTokenAlwaysRefresh(f) == BeginRefresh(f)

\* variant: a cached token is handed out whatever its expiry
GetTokenIgnoresExpiry(f) ==
    IF access_token # None THEN AuthReturn(f, access_token) ELSE BeginRefresh(f)

\* auth.py 97-109: get_token()
GetToken(f) ==
    IF is_token_valid THEN AuthReturn(f, access_token) ELSE BeginRefresh(f)

\* auth.py 161-174: except RETRYABLE_EXCEPTIONS as e in _refresh_token
AuthExcept(f, e) ==
    LET g == [f EXCEPT !.auth_last_exception = e] IN
    IF MayRetry(f.auth_attempt)
    THEN [g EXCEPT !.pc = "auth_sleep", !.backoff = Backoff(f.auth_attempt)]
    ELSE AuthRaise(g, e, 0)

\* an exception raised inside the try block of _refresh_token: caught by the
\* except clause when its class is retryable, and otherwise raised
AuthTry(f, e, s) ==
    IF IsRetryableException(e) THEN AuthExcept(f, e) ELSE AuthRaise(f, e, s)

\* The outcome of a token request is kept in the history of a call made on
\* the AuthClient itself.
AuthRecord(f, o) ==
    IF f.op = "post" THEN f ELSE [f EXCEPT !.auth_hist = Record(@, "token", o)]

\* a caller invokes operation op: fresh locals
NewCall(op) == [IdleFrame EXCEPT !.op = op]

\* a call on the AuthClient itself also notes the cache and clock it found
\* and the call made before it
NewAuthCall(op) ==
    [IdleFrame EXCEPT !.op = op, !.pre_token = access_token,
                      !.pre_expiry = token_expiry, !.start_at = now,
                      !.prev_call = last_call]

\* variant: the lifetime is stored without the clock reading
ExpiryNoClock(t, expires_in) == expires_in

\* self._token_expiry = time.time() + token_response.expires_in
ExpiryAt(t, expires_in) == t + expires_in

\* data.get("expires_in", 900)
ExpiresIn(data) ==
    IF "expires_in" \in DOMAIN data THEN data.expires_in ELSE DEFAULT_EXPIRES_IN

\* What a call notes of a 2xx response of the token endpoint: whether the body
\* is JSON, the access_token and expires_in it carries (None when the key is
\* missing, the default when expires_in is missing, 0 when it is not a
\* number), and the clock reading.
SeenTokenBody(f, data) ==
    IF "not_json" \in DOMAIN data
    THEN [f EXCEPT !.body_json = FALSE, !.body_token = None, !.body_ttl = 0, !.recv_at = now]
    ELSE [f EXCEPT !.body_json = TRUE,
                   !.body_token = IF "access_token" \in DOMAIN data
                                  THEN data.access_token ELSE None,
                   !.body_ttl = IF "expires_in" \in DOMAIN data THEN data.expires_in
                                ELSE IF "expires_in_text" \in DOMAIN data THEN 0
                                ELSE 900,
                   !.recv_at = now]

\* tok_chain counts the token requests a _post has sent, for as long as each
\* of them raised a retryable transport exception and the _post has sent no
\* resource request; from then on it is -1.
ChainSent(f) ==
    IF f.op = "post" /\ f.tok_chain >= 0 THEN [f EXCEPT !.tok_chain = @ + 1] ELSE f

ChainBroken(f) == IF f.op = "post" THEN [f EXCEPT !.tok_chain = -1] ELSE f

\* --------------------------------------------- the asynchronous client
\* The locals of a coroutine of the AsyncInsightsClient / AsyncAuthClient run
\* by one task: conn is the httpx.AsyncClient the local variable client of
\* _post refers to, closing the one close() has called aclose() on (0: none).
\* overlapped notes that the call began while another task was in a backoff
\* wait that has not ended since.
AsyncIdle ==
    [pc |-> "idle", op |-> "none",
     attempt |-> 0, last_exception |-> None,
     auth_attempt |-> 0, auth_last_exception |-> None,
     backoff |-> 0, hdr_token |-> None, auth_conn |-> FALSE,
     res_reqs |-> 0, tok_reqs |-> 0,
     post_sleeps |-> <<>>, auth_sleeps |-> <<>>,
     conn |-> 0, closing |-> 0, wake_at |-> 0,
     overlapped |-> FALSE,
     result |-> NoResult]

\* client.py 524-567, auth.py 192-227: the instance after construction.
\* client is self._client (0 for None, or the number of a connection), made counts
\* the httpx.AsyncClient objects _get_client has created, open holds those
\* of them on which aclose() was not called.
NoInput ==
    [kind |-> "none", status |-> 0, body |-> "", data |-> [not_json |-> TRUE], exc |-> ""]

NewTwin ==
    [access_token |-> None, token_expiry |-> 0,
     client |-> 0, made |-> 0, open |-> {},
     frame |-> [t \in Tasks |-> AsyncIdle],
     input |-> NoInput]

\* Each of the following takes the instance m and the task t whose coroutine
\* runs, and gives the instance after the piece of code it models.

\* the coroutine of task t ends: it returns a value or raises to its caller,
\* and its locals are gone
AioFinish(m, t, res) ==
    [m EXCEPT !.frame[t] = [AsyncIdle EXCEPT !.op = m.frame[t].op, !.result = res,
                                             !.overlapped = m.frame[t].overlapped]]

\* client.py 626-639: except RETRYABLE_EXCEPTIONS as e in the async _post;
\* asyncio.sleep(backoff) is over when the clock of the loop reads wake_at
AioPostExcept(m, t, e) ==
    LET f == m.frame[t] IN
    IF f.attempt < max_retries
    THEN [m EXCEPT !.frame[t].last_exception = e,
                   !.frame[t].pc = "post_sleep",
                   !.frame[t].backoff = retry_backoff * (2 ^ f.attempt),
                   !.frame[t].wake_at = now + retry_backoff * (2 ^ f.attempt)]
    ELSE AioFinish([m EXCEPT !.frame[t].last_exception = e], t, Raised(e, 0))

\* an exception raised inside the try block of the async _post
AioPostTry(m, t, e, s) ==
    IF e \in RETRYABLE_EXCEPTIONS THEN AioPostExcept(m, t, e)
    ELSE AioFinish(m, t, Raised(e, s))

\* client.py 612-624: the response of the resource endpoint is classified
AioPostResponded(m, t, status, body) ==
    LET f == m.frame[t] IN
    IF status \in RETRYABLE_STATUS_CODES /\ f.attempt < max_retries
    THEN [m EXCEPT !.frame[t].pc = "post_sleep",
                   !.frame[t].backoff = retry_backoff * (2 ^ f.attempt),
                   !.frame[t].wake_at = now + retry_backoff * (2 ^ f.attempt)]
    ELSE IF status < 200 \/ status > 299
    THEN AioPostTry(m, t, "HTTPStatusError", status)
    ELSE IF body = NotJson
    THEN AioPostTry(m, t, "JSONDecodeError", 0)
    ELSE AioFinish(m, t, Returned(body))

\* client.py 610, 626: the resource request raises e
AioPostFailed(m, t, e) == AioPostTry(m, t, e, 0)

\* client.py 610: client.post(url, headers=..., json=...) on the connection
\* the local variable client refers to; httpx raises RuntimeError at once
\* when aclose() was called on it
AioSendResource(m, t, tok) ==
    LET p == [m EXCEPT !.frame[t].auth_attempt = 0,
                       !.frame[t].auth_last_exception = None,
                       !.frame[t].tok_reqs = 0,
                       !.frame[t].auth_sleeps = <<>>]
    IN
    IF m.frame[t].conn \in m.open
    THEN [p EXCEPT !.frame[t].pc = "post_wait", !.frame[t].hdr_token = tok,
                   !.frame[t].res_reqs = @ + 1]
    ELSE AioPostTry(p, t, "RuntimeError", 0)

\* the async get_token() / _refresh_token() returns tok to whoever awaits it
AioAuthReturn(m, t, tok) ==
    IF m.frame[t].op = "post" THEN AioSendResource(m, t, tok)
    ELSE AioFinish(m, t, Returned(tok))

\* the async _refresh_token() raises: to the caller of get_token(), or into
\* the try block of _post (through _get_headers)
AioAuthRaise(m, t, e, s) ==
    IF m.frame[t].op = "post"
    THEN AioPostTry([m EXCEPT !.frame[t].auth_attempt = 0,
                              !.frame[t].auth_last_exception = None,
                              !.frame[t].tok_reqs = 0,
                              !.frame[t].auth_sleeps = <<>>], t, e, s)
    ELSE AioFinish(m, t, Raised(e, s))

\* auth.py 236-241: the async get_token(), with is_token_valid of 228-234
AioGetToken(m, t) ==
    IF m.access_token # None /\ now < m.token_expiry - TOKEN_BUFFER
    THEN AioAuthReturn(m, t, m.access_token)
    ELSE [m EXCEPT !.frame[t].pc = "auth_loop", !.frame[t].auth_attempt = 0,
                   !.frame[t].auth_last_exception = None,
                   !.frame[t].tok_reqs = 0, !.frame[t].auth_sleeps = <<>>]

\* client.py 569-573: the async _get_client()
AioGetClient(m, t) ==
    IF m.client = 0
    THEN [m EXCEPT !.client = m.made + 1, !.made = m.made + 1,
                   !.open = @ \cup {m.made + 1},
                   !.frame[t].conn = m.made + 1]
    ELSE [m EXCEPT !.frame[t].conn = m.client]

\* a caller awaits client._post(endpoint, body) (client.py 601-604)
AioStartedPost(m, t) ==
    [m EXCEPT !.frame[t] = [AsyncIdle EXCEPT !.op = "post", !.pc = "post_loop"]]

\* a caller awaits auth.get_token()
AioStartedGetToken(m, t) ==
    AioGetToken([m EXCEPT !.frame[t] = [AsyncIdle EXCEPT !.op = "get_token"]], t)

\* client.py 606-610 and 641-644: the head of the for loop of the async _post
AioPostLooped(m, t) ==
    LET f == m.frame[t] IN
    IF f.attempt < max_retries + 1
    THEN AioGetToken(AioGetClient(m, t), t)
    ELSE IF f.last_exception # None
    THEN AioFinish(m, t, Raised(f.last_exception, 0))
    ELSE AioFinish(m, t, Raised("RuntimeError", 0))

\* auth.py 255-268 and 303-306: the head of the for loop of the async
\* _refresh_token
AioAuthLooped(m, t) ==
    LET f == m.frame[t] IN
    IF f.auth_attempt < max_retries + 1
    THEN [m EXCEPT !.frame[t].pc = "auth_wait", !.frame[t].auth_conn = TRUE,
                   !.frame[t].tok_reqs = @ + 1]
    ELSE IF f.auth_last_exception # None
    THEN AioAuthRaise(m, t, f.auth_last_exception, 0)
    ELSE AioAuthRaise(m, t, "RuntimeError", 0)

\* auth.py 288-301: except RETRYABLE_EXCEPTIONS as e in the async
\* _refresh_token
AioAuthExcept(m, t, e) ==
    LET f == m.frame[t] IN
    IF f.auth_attempt < max_retries
    THEN [m EXCEPT !.frame[t].auth_last_exception = e,
                   !.frame[t].pc = "auth_sleep",
                   !.frame[t].backoff = retry_backoff * (2 ^ f.auth_attempt),
                   !.frame[t].wake_at = now + retry_backoff * (2 ^ f.auth_attempt)]
    ELSE AioAuthRaise([m EXCEPT !.frame[t].auth_last_exception = e], t, e, 0)

\* an exception raised inside the try block of the async _refresh_token;
\* leaving the async with block closes the connection of the attempt
AioAuthTry(m, t, e, s) ==
    LET c == [m EXCEPT !.frame[t].auth_conn = FALSE] IN
    IF e \in RETRYABLE_EXCEPTIONS THEN AioAuthExcept(c, t, e)
    ELSE AioAuthRaise(c, t, e, s)

\* auth.py 270-286: what the async _refresh_token does with a response of
\* the token endpoint
AioAuthResponded(m, t, status, data) ==
    LET f == m.frame[t] IN
    IF status \in RETRYABLE_STATUS_CODES /\ f.auth_attempt < max_retries
    THEN [m EXCEPT !.frame[t].pc = "auth_sleep",
                   !.frame[t].backoff = retry_backoff * (2 ^ f.auth_attempt),
                   !.frame[t].wake_at = now + retry_backoff * (2 ^ f.auth_attempt)]
    ELSE IF status < 200 \/ status > 299
    THEN AioAuthTry(m, t, "HTTPStatusError", status)
    ELSE IF "not_json" \in DOMAIN data
    THEN AioAuthTry(m, t, "JSONDecodeError", 0)
    ELSE IF "access_token" \notin DOMAIN data
    THEN AioAuthTry(m, t, "KeyError", 0)
    ELSE IF "expires_in_text" \in DOMAIN data
    THEN AioAuthTry([m EXCEPT !.access_token = data.access_token], t, "TypeError", 0)
    ELSE AioAuthReturn(
             [m EXCEPT !.access_token = data.access_token,
                       !.token_expiry =
                           now + (IF "expires_in" \in DOMAIN data
                                  THEN data.expires_in ELSE DEFAULT_EXPIRES_IN),
                       !.frame[t].auth_conn = FALSE],
             t, data.access_token)

\* auth.py 259, 288: the token request raises e
AioAuthFailed(m, t, e) == AioAuthTry(m, t, e, 0)

\* variant: the asynchronous loop goes round again without counting the attempt
AioPostWokenSameAttempt(m, t) ==
    [m EXCEPT !.frame[t].pc = "post_loop",
              !.frame[t].post_sleeps = Append(@, m.frame[t].backoff)]

\* client.py 619-620, 634: asyncio.sleep(backoff) returns, the next iteration
AioPostWoken(m, t) ==
    [m EXCEPT !.frame[t].pc = "post_loop", !.frame[t].attempt = @ + 1,
              !.frame[t].post_sleeps = Append(@, m.frame[t].backoff)]

\* auth.py 277-278, 296: asyncio.sleep(backoff) returns, the next iteration
\* (the continue of the status path leaves the async with block)
AioAuthWoken(m, t) ==
    [m EXCEPT !.frame[t].pc = "auth_loop", !.frame[t].auth_attempt = @ + 1,
              !.frame[t].auth_conn = FALSE,
              !.frame[t].auth_sleeps = Append(@, m.frame[t].backoff)]

\* auth.py 308-311: invalidate_token() of the AsyncAuthClient
AioInvalidated(m) == [m EXCEPT !.access_token = None, !.token_expiry = 0]

\* client.py 646-649: close() tests self._client and calls aclose() on it,
\* which marks the connection closed and then awaits the transport
AioCloseBegun(m, t) ==
    IF m.client # 0
    THEN [m EXCEPT !.open = @ \ {m.client},
                   !.frame[t].pc = "closing", !.frame[t].closing = m.client]
    ELSE m

\* client.py 650: aclose() has returned; self._client = None
AioCloseEnded(m, t) ==
    [m EXCEPT !.client = 0, !.frame[t].pc = "idle", !.frame[t].closing = 0]

\* ------------------------------------------------------------- state
Init ==
    /\ component \in {"AuthClient", "InsightsClient"}
    /\ max_retries \in -1 .. MaxRetriesBound
    /\ retry_backoff \in {1, MaxBackoff}
    /\ access_token = None
    /\ token_expiry = 0
    /\ client = None
    /\ open_conns = 0
    /\ now = 0
    /\ frame = [t \in Tasks |-> IdleFrame]
    /\ last_call = Called("init")
    /\ twin = NewTwin

\* ----------------------------------------------------------- actions
\* auth.get_token() is called on the AuthClient
StartGetToken(t) ==
    /\ component = "AuthClient"
    /\ frame[t].pc = "idle"
    /\ now <= MaxTime
    /\ frame' = [frame EXCEPT ![t] = GetToken(NewAuthCall("get_token"))]
    /\ last_call' = Called("get_token")
    /\ UNCHANGED <<twin, component, max_retries, retry_backoff, access_token, token_expiry,
                   client, open_conns, now>>

\* auth._refresh_token() is called on the AuthClient
StartRefresh(t) ==
    /\ component = "AuthClient"
    /\ frame[t].pc = "idle"
    /\ now <= MaxTime
    /\ frame' = [frame EXCEPT ![t] = BeginRefresh(NewAuthCall("refresh"))]
    /\ last_call' = Called("refresh")
    /\ UNCHANGED <<twin, component, max_retries, retry_backoff, access_token, token_expiry,
                   client, open_conns, now>>

\* client._post(endpoint, body) is entered (client.py 121-122)
StartPost(t) ==
    /\ component = "InsightsClient"
    /\ frame[t].pc = "idle"
    /\ now <= MaxTime
    /\ frame' = [frame EXCEPT ![t] = [NewCall("post") EXCEPT !.pc = "post_loop"]]
    /\ last_call' = Called("post")
    /\ UNCHANGED <<twin, component, max_retries, retry_backoff, access_token, token_expiry,
                   client, open_conns, now>>

\* client.py 124-130 and 161-164: the head of the for loop of _post; inside
\* the range, _get_client() and then _get_headers() -> get_token(); past it,
\* the fallback after the loop
PostLoop(t) ==
    LET f == frame[t] IN
    /\ f.pc = "post_loop"
    /\ IF InRange(f.attempt)
       THEN /\ client' = "open"
            /\ open_conns' = IF client = None THEN open_conns + 1 ELSE open_conns
            /\ frame' = [frame EXCEPT ![t] = GetToken(f)]
       ELSE /\ frame' = [frame EXCEPT ![t] =
                   Finish(f, IF f.last_exception # None
                             THEN Raised(f.last_exception, 0)
                             ELSE Raised("RuntimeError", 0))]
            /\ UNCHANGED <<client, open_conns>>
    /\ UNCHANGED <<twin, component, max_retries, retry_backoff, access_token, token_expiry,
                   now, last_call>>

\* the body of a response is read only after raise_for_status() has let it
\* pass: the bodies that make a difference to a response of this status
BodiesRead(status, bodies, unread) ==
    IF status >= 200 /\ status <= 299 THEN bodies ELSE {unread}

\* variant: a 401 of the resource endpoint makes the executor drop the
\* cached token
PostResponseDropsToken(t) ==
    LET f == frame[t] IN
    /\ f.pc = "post_wait"
    /\ \E status \in Statuses :
       \E body \in BodiesRead(status, Bodies \cup {NotJson}, NotJson) :
         /\ frame' = [frame EXCEPT ![t] =
               PostClassify([f EXCEPT !.post_hist =
                                Record(@, "resource", StatusOutcome("resource", status)),
                                      !.resp_body =
                                IF status >= 200 /\ status <= 299 THEN body ELSE @],
                            status, body)]
         /\ access_token' = IF status = 401 THEN None ELSE access_token
         /\ token_expiry' = IF status = 401 THEN 0 ELSE token_expiry
    /\ UNCHANGED <<twin, component, max_retries, retry_backoff,
                   client, open_conns, now, last_call>>

\* client.py 132-144: what _post does with a response of the resource
\* endpoint that has this status and this body
PostRespond(t, status, body) ==
    LET f == frame[t] IN
    /\ frame' = [frame EXCEPT ![t] =
          PostClassify([f EXCEPT !.post_hist =
                           Record(@, "resource", StatusOutcome("resource", status)),
                                 !.resp_body =
                           IF status >= 200 /\ status <= 299 THEN body ELSE @],
                       status, body)]
    /\ UNCHANGED <<twin, component, max_retries, retry_backoff, access_token, token_expiry,
                   client, open_conns, now, last_call>>

\* client.py 126-130: a response of the resource endpoint arrives
PostResponse(t) ==
    /\ frame[t].pc = "post_wait"
    /\ \E status \in Statuses :
       \E body \in BodiesRead(status, Bodies \cup {NotJson}, NotJson) :
          PostRespond(t, status, body)

\* client.py 146-159: what _post does when the resource request raises e
PostFail(t, e) ==
    LET f == frame[t] IN
    /\ frame' = [frame EXCEPT ![t] =
          PostTry([f EXCEPT !.post_hist =
                      Record(@, "resource", ExcOutcome("resource", e, 0))], e, 0)]
    /\ UNCHANGED <<twin, component, max_retries, retry_backoff, access_token, token_expiry,
                   client, open_conns, now, last_call>>

\* client.py 126-130, 146: the resource request raises a transport error
PostException(t) ==
    /\ frame[t].pc = "post_wait"
    /\ \E e \in TransportErrors : PostFail(t, e)

\* variant: the loop goes round again without counting the attempt
PostSleepSameAttempt(t) ==
    LET f == frame[t] IN
    /\ f.pc = "post_sleep"
    /\ now' = now + f.backoff
    /\ frame' = [frame EXCEPT ![t] =
          [f EXCEPT !.pc = "post_loop", !.post_sleeps = Append(@, f.backoff)]]
    /\ UNCHANGED <<twin, component, max_retries, retry_backoff, access_token, token_expiry,
                   client, open_conns, last_call>>

\* client.py 140-141, 154: time.sleep(backoff), then the next iteration
PostSleep(t) ==
    LET f == frame[t] IN
    /\ f.pc = "post_sleep"
    /\ now' = now + f.backoff
    /\ frame' = [frame EXCEPT ![t] =
          [f EXCEPT !.pc = "post_loop", !.attempt = @ + 1,
                    !.post_sleeps = Append(@, f.backoff)]]
    /\ UNCHANGED <<twin, component, max_retries, retry_backoff, access_token, token_expiry,
                   client, open_conns, last_call>>

\* auth.py 122-133 and 176-179: the head of the for loop of _refresh_token;
\* inside the range a connection is opened and the token request sent; past
\* it, the fallback after the loop
AuthLoop(t) ==
    LET f == frame[t] IN
    /\ f.pc = "auth_loop"
    /\ frame' = [frame EXCEPT ![t] =
          IF InRange(f.auth_attempt)
          THEN [ChainSent(f) EXCEPT !.pc = "auth_wait", !.auth_conn = TRUE,
                                    !.tok_reqs = @ + 1]
          ELSE IF f.auth_last_exception # None
          THEN AuthRaise(f, f.auth_last_exception, 0)
          ELSE AuthRaise(f, "RuntimeError", 0)]
    /\ UNCHANGED <<twin, component, max_retries, retry_backoff, access_token, token_expiry,
                   client, open_conns, now, last_call>>

\* auth.py 135-159: what _refresh_token does with a response of the token
\* endpoint that has this status and this body
AuthRespond(t, status, data) ==
    LET f == frame[t] IN
    /\
         LET seen == IF f.op # "post" /\ status >= 200 /\ status <= 299
                     THEN SeenTokenBody(f, data) ELSE f
             g == AuthRecord(ChainBroken(seen), StatusOutcome("token", status))
             closed == [g EXCEPT !.auth_conn = FALSE]
         IN
         IF IsRetryableStatus(status) /\ MayRetry(f.auth_attempt)
         THEN /\ frame' = [frame EXCEPT ![t] =
                    [g EXCEPT !.pc = "auth_sleep", !.backoff = Backoff(f.auth_attempt)]]
              /\ UNCHANGED <<access_token, token_expiry>>
         ELSE IF ~IsSuccess(status)
         THEN /\ frame' = [frame EXCEPT ![t] = AuthTry(closed, "HTTPStatusError", status)]
              /\ UNCHANGED <<access_token, token_expiry>>
         ELSE IF "not_json" \in DOMAIN data
         THEN /\ frame' = [frame EXCEPT ![t] = AuthTry(closed, "JSONDecodeError", 0)]
              /\ UNCHANGED <<access_token, token_expiry>>
         ELSE IF "access_token" \notin DOMAIN data
         THEN /\ frame' = [frame EXCEPT ![t] = AuthTry(closed, "KeyError", 0)]
              /\ UNCHANGED <<access_token, token_expiry>>
         ELSE IF "expires_in_text" \in DOMAIN data
         THEN \* auth.py 156-157: the token is stored, then time.time() + <str>
              \* raises TypeError and the expiry keeps its old value
              /\ access_token' = data.access_token
              /\ UNCHANGED token_expiry
              /\ frame' = [frame EXCEPT ![t] = AuthTry(closed, "TypeError", 0)]
         ELSE /\ access_token' = data.access_token
              /\ token_expiry' = ExpiryAt(now, ExpiresIn(data))
              /\ frame' = [frame EXCEPT ![t] =
                    AuthReturn(closed, data.access_token)]
    /\ UNCHANGED <<twin, component, max_retries, retry_backoff, client, open_conns, now,
                   last_call>>

\* auth.py 127-133: a response of the token endpoint arrives
AuthResponse(t) ==
    /\ frame[t].pc = "auth_wait"
    /\ \E status \in Statuses :
       \E data \in BodiesRead(status, TokenBodies, [not_json |-> TRUE]) :
          AuthRespond(t, status, data)

\* variant: the connection of the attempt is left open when the request raises
AuthFailLeavesOpen(t, e) ==
    LET f == frame[t]
        h == IF e \in RETRYABLE_EXCEPTIONS THEN f ELSE ChainBroken(f)
    IN
    /\ frame' = [frame EXCEPT ![t] = AuthTry(AuthRecord(h, ExcOutcome("token", e, 0)), e, 0)]
    /\ UNCHANGED <<twin, component, max_retries, retry_backoff, access_token, token_expiry,
                   client, open_conns, now, last_call>>

\* auth.py 124-133, 161: the token request raises a transport error; leaving
\* the with block closes the connection
AuthFail(t, e) ==
    LET f == frame[t] IN
    /\
         LET h == IF e \in RETRYABLE_EXCEPTIONS THEN f ELSE ChainBroken(f)
             g == [AuthRecord(h, ExcOutcome("token", e, 0)) EXCEPT !.auth_conn = FALSE]
         IN
         frame' = [frame EXCEPT ![t] = AuthTry(g, e, 0)]
    /\ UNCHANGED <<twin, component, max_retries, retry_backoff, access_token, token_expiry,
                   client, open_conns, now, last_call>>

\* auth.py 127-133: client.post(...) raises instead of returning a response
AuthException(t) ==
    /\ frame[t].pc = "auth_wait"
    /\ \E e \in TransportErrors : AuthFail(t, e)

\* auth.py 143-144, 169: time.sleep(backoff), then the next iteration (the
\* continue of the status path leaves the with block: the connection closes)
AuthSleep(t) ==
    LET f == frame[t] IN
    /\ f.pc = "auth_sleep"
    /\ now' = now + f.backoff
    /\ frame' = [frame EXCEPT ![t] =
          [f EXCEPT !.pc = "auth_loop", !.auth_attempt = @ + 1, !.auth_conn = FALSE,
                    !.auth_sleeps = Append(@, f.backoff)]]
    /\ UNCHANGED <<twin, component, max_retries, retry_backoff, access_token, token_expiry,
                   client, open_conns, last_call>>

\* variant: the token is dropped, the expiry is kept
invalidate_token_keeps_expiry ==
    /\ access_token' = None
    /\ token_expiry' = token_expiry
    /\ last_call' = [name |-> "invalidate", had_token |-> access_token # None,
                     was_valid |-> is_token_valid]
    /\ UNCHANGED <<twin, component, max_retries, retry_backoff, client, open_conns, now, frame>>

\* variant: the expiry is set to the clock reading
invalidate_token_stamps_clock ==
    /\ access_token' = None
    /\ token_expiry' = now
    /\ last_call' = [name |-> "invalidate", had_token |-> access_token # None,
                     was_valid |-> is_token_valid]
    /\ UNCHANGED <<twin, component, max_retries, retry_backoff, client, open_conns, now, frame>>

\* auth.py 181-184: invalidate_token()
invalidate_token ==
    /\ access_token' = None
    /\ token_expiry' = 0
    /\ last_call' = [name |-> "invalidate", had_token |-> access_token # None,
                     was_valid |-> is_token_valid]
    /\ UNCHANGED <<twin, component, max_retries, retry_backoff, client, open_conns, now, frame>>

\* variant: the test for a held connection is left out
close_without_test ==
    /\ client' = None /\ open_conns' = open_conns - 1
    /\ last_call' = Called("close")
    /\ UNCHANGED <<twin, component, max_retries, retry_backoff, access_token, token_expiry,
                   now, frame>>

\* variant: the reference is dropped without closing the connection
close_drops_reference ==
    /\ client' = None
    /\ UNCHANGED open_conns
    /\ last_call' = Called("close")
    /\ UNCHANGED <<twin, component, max_retries, retry_backoff, access_token, token_expiry,
                   now, frame>>

\* client.py 166-170: close()
close ==
    /\ IF client # None
       THEN client' = None /\ open_conns' = open_conns - 1
       ELSE UNCHANGED <<client, open_conns>>
    /\ last_call' = Called("close")
    /\ UNCHANGED <<twin, component, max_retries, retry_backoff, access_token, token_expiry,
                   now, frame>>

\* the clock advances by a second between calls (within a call it advances
\* by the sleeps)
Tick ==
    /\ AllIdle
    /\ now < MaxTime
    /\ now' = now + 1
    /\ UNCHANGED <<twin, component, max_retries, retry_backoff, access_token, token_expiry,
                   client, open_conns, frame, last_call>>

\* The blocking variant: one thread, so a caller invokes invalidate_token()
\* or close() only between calls.  Nothing in InsightsClient calls
\* invalidate_token(); it is called on an AuthClient used on its own.
Invalidate == component = "AuthClient" /\ AllIdle /\ now <= MaxTime /\ invalidate_token
Close == component = "InsightsClient" /\ AllIdle /\ now <= MaxTime /\ close

Step(t) ==
    \/ StartGetToken(t)
    \/ StartRefresh(t)
    \/ StartPost(t)
    \/ PostLoop(t)
    \/ PostResponse(t)
    \/ PostException(t)
    \/ PostSleep(t)
    \/ AuthLoop(t)
    \/ AuthResponse(t)
    \/ AuthException(t)
    \/ AuthSleep(t)

Next ==
    \/ \E t \in SyncTasks : Step(t)
    \/ Invalidate
    \/ Close
    \/ Tick

Spec == Init /\ [][Next]_vars

\* ------------------------------------------------------------ fairness
\* A step of a call in progress.  The blocking code runs on: every HTTP call
\* comes back with a response or an exception and every time.sleep() ends,
\* so a call in progress is not left standing forever.
Progress(t) ==
    \/ PostLoop(t)
    \/ PostResponse(t)
    \/ PostException(t)
    \/ PostSleep(t)
    \/ AuthLoop(t)
    \/ AuthResponse(t)
    \/ AuthException(t)
    \/ AuthSleep(t)

\* The caches a call may find: empty, a token that is valid at 0, and one that
\* is not (each is what a response at clock reading 0 leaves behind).
InitFair ==
    /\ component \in {"AuthClient", "InsightsClient"}
    /\ max_retries \in -1 .. MaxRetriesBound
    /\ retry_backoff = 1
    /\ \E c \in {<<None, 0>>, <<"T2", 61>>, <<"T1", 60>>} :
          /\ access_token = IF max_retries >= 0 THEN c[1] ELSE None
          /\ token_expiry = IF max_retries >= 0 THEN c[2] ELSE 0
    /\ client = None
    /\ open_conns = 0
    /\ now = 0
    /\ frame = [t \in Tasks |-> IdleFrame]
    /\ last_call = Called("init")
    /\ twin = NewTwin

\* the one call the task makes
FirstCall(t) ==
    /\ frame[t].op = "none"
    /\ \/ StartGetToken(t)
       \/ StartRefresh(t)
       \/ StartPost(t)

NextFair == \E t \in SyncTasks : FirstCall(t) \/ Progress(t)

FairSpec == InitFair /\ [][NextFair]_vars /\ \A t \in SyncTasks : WF_vars(Progress(t))

\* ------------------------------------------- an AuthClient used on its own
InitAuth == Init /\ component = "AuthClient"

StepAuth(t) ==
    \/ StartGetToken(t)
    \/ StartRefresh(t)
    \/ AuthLoop(t)
    \/ AuthResponse(t)
    \/ AuthException(t)
    \/ AuthSleep(t)

NextAuth ==
    \/ \E t \in SyncTasks : StepAuth(t)
    \/ Invalidate
    \/ Tick

SpecAuth == InitAuth /\ [][NextAuth]_vars

\* ------------------- an AuthClient whose token endpoint may also send null
\* A JSON body whose access_token is null: data["access_token"] is None, no
\* KeyError is raised, and None is stored and returned.
NullTokenBody == [access_token |-> None, expires_in |-> 61]

\* auth.py 127-133: a response of the token endpoint arrives
AuthResponseOrNull(t) ==
    /\ frame[t].pc = "auth_wait"
    /\ \E status \in Statuses :
       \E data \in BodiesRead(status, TokenBodies \cup {NullTokenBody}, [not_json |-> TRUE]) :
          AuthRespond(t, status, data)

StepNull(t) ==
    \/ StartGetToken(t)
    \/ AuthLoop(t)
    \/ AuthResponseOrNull(t)
    \/ AuthException(t)
    \/ AuthSleep(t)

NextNull ==
    \/ \E t \in SyncTasks : StepNull(t)
    \/ Invalidate
    \/ Tick

SpecNull == InitAuth /\ [][NextNull]_vars

\* --------------------------------------------------- an InsightsClient
InitPost == Init /\ component = "InsightsClient"

StepPost(t) ==
    \/ StartPost(t)
    \/ PostLoop(t)
    \/ PostResponse(t)
    \/ PostException(t)
    \/ PostSleep(t)
    \/ AuthLoop(t)
    \/ AuthResponse(t)
    \/ AuthException(t)
    \/ AuthSleep(t)

NextPost ==
    \/ \E t \in SyncTasks : StepPost(t)
    \/ Close
    \/ Tick

SpecPost == InitPost /\ [][NextPost]_vars

\* ------------------------------- the life of an executor's connection
InitLife == InitPost /\ max_retries <= 1 /\ retry_backoff = 1

\* client._post(endpoint, body) is entered (client.py 121-122); the frame
\* notes the call made before it
StartPostNoting(t) ==
    /\ component = "InsightsClient"
    /\ frame[t].pc = "idle"
    /\ now <= MaxTime
    /\ frame' = [frame EXCEPT ![t] =
          [NewCall("post") EXCEPT !.pc = "post_loop", !.prev_call = last_call]]
    /\ last_call' = Called("post")
    /\ UNCHANGED <<twin, component, max_retries, retry_backoff, access_token, token_expiry,
                   client, open_conns, now>>

StepLife(t) ==
    \/ StartPostNoting(t)
    \/ PostLoop(t)
    \/ PostResponse(t)
    \/ PostException(t)
    \/ PostSleep(t)
    \/ AuthLoop(t)
    \/ AuthResponse(t)
    \/ AuthException(t)
    \/ AuthSleep(t)

NextLife ==
    \/ \E t \in SyncTasks : StepLife(t)
    \/ Close
    \/ Tick

SpecLife == InitLife /\ [][NextLife]_vars

\* ------------------------------------ an AsyncAuthClient and two tasks
\* The coroutines of one event loop: a task runs from one await to the next
\* without interruption, so each action below is one such stretch.
InitAsync ==
    /\ component = "AsyncAuthClient"
    /\ max_retries \in {0, 1}
    /\ retry_backoff = 1
    /\ access_token = None
    /\ token_expiry = 0
    /\ client = None
    /\ open_conns = 0
    /\ now = 0
    /\ frame = [t \in Tasks |-> IdleFrame]
    /\ last_call = Called("init")
    /\ twin = NewTwin

\* what the token endpoint is made to answer the two tasks with
AsyncStatuses == {200, 401, 503}
AsyncTokenBodies ==
    {[access_token |-> "T1", expires_in |-> 60],
     [access_token |-> "T2", expires_in |-> 61],
     [access_token |-> "T2", expires_in_text |-> "3600"]}
AsyncTransportErrors == {"ReadTimeout"}

\* auth.py 236-241: a task calls get_token() on the AsyncAuthClient; each of
\* the two tasks makes the call once
AsyncStartGetToken(t) ==
    /\ component = "AsyncAuthClient"
    /\ frame[t].pc = "idle"
    /\ frame[t].op = "none"
    /\ now <= MaxTime
    /\ frame' = [frame EXCEPT ![t] = GetToken(NewAuthCall("get_token"))]
    /\ last_call' = Called("get_token")
    /\ UNCHANGED <<twin, component, max_retries, retry_backoff, access_token, token_expiry,
                   client, open_conns, now>>

\* auth.py 277, 296: await asyncio.sleep(backoff) is over: backoff holds what
\* is left of the sleep, and the other task may have run meanwhile
AsyncWake(t) ==
    LET f == frame[t] IN
    /\ f.pc = "auth_sleep"
    /\ f.backoff = 0
    /\ frame' = [frame EXCEPT ![t] =
          [f EXCEPT !.pc = "auth_loop", !.auth_attempt = @ + 1, !.auth_conn = FALSE,
                    !.auth_sleeps = Append(@, Backoff(f.auth_attempt))]]
    /\ UNCHANGED <<twin, component, max_retries, retry_backoff, access_token, token_expiry,
                   client, open_conns, now, last_call>>

\* the clock advances by a second; every sleeping task has a second less to sleep
AsyncTick ==
    /\ \/ now < MaxTime
       \/ \E t \in Tasks : frame[t].pc = "auth_sleep" /\ frame[t].backoff > 0
    /\ now' = now + 1
    /\ frame' = [t \in Tasks |->
          IF frame[t].pc = "auth_sleep" /\ frame[t].backoff > 0
          THEN [frame[t] EXCEPT !.backoff = @ - 1] ELSE frame[t]]
    /\ UNCHANGED <<twin, component, max_retries, retry_backoff, access_token, token_expiry,
                   client, open_conns, last_call>>

\* auth.py 308-311: invalidate_token() is not a coroutine: a task may call
\* it whenever it runs, also while another task awaits inside get_token()
AsyncInvalidate ==
    component = "AsyncAuthClient" /\ now <= MaxTime /\ invalidate_token

\* auth.py 253-285: await client.post(...) returns a response to the task
AsyncAuthResponse(t) ==
    /\ frame[t].pc = "auth_wait"
    /\ \E status \in AsyncStatuses :
       \E data \in BodiesRead(status, AsyncTokenBodies, [not_json |-> TRUE]) :
          AuthRespond(t, status, data)

\* auth.py 253-259, 287: await client.post(...) raises in the task
AsyncAuthException(t) ==
    /\ frame[t].pc = "auth_wait"
    /\ \E e \in AsyncTransportErrors : AuthFail(t, e)

StepAsync(t) ==
    \/ AsyncStartGetToken(t)
    \/ AuthLoop(t)
    \/ AsyncAuthResponse(t)
    \/ AsyncAuthException(t)
    \/ AsyncWake(t)

NextAsync ==
    \/ \E t \in Tasks : StepAsync(t)
    \/ AsyncInvalidate
    \/ AsyncTick

SpecAsync == InitAsync /\ [][NextAsync]_vars

\* ------------------------------------------------------ what calls observed
\* the call of task t has ended and was a call of op
Done(t, op) == frame[t].pc = "idle" /\ frame[t].op = op /\ frame[t].result.kind # "none"

\* the call of task t is, or was, a get_token() or _refresh_token() on the AuthClient
IsTokenCall(t) == frame[t].op \in {"get_token", "refresh"}

\* every attempt of the loop with history h ended with a retryable status of endpoint src
EveryAttemptRetryableStatus(h, src) ==
    /\ h.prefix \in {"none", "status"}
    /\ h.last.src = src /\ h.last.kind = "status"
    /\ h.last.status \in RETRYABLE_STATUS_CODES

\* every attempt of the loop with history h ended with a retryable exception of endpoint src
EveryAttemptRetryableException(h, src) ==
    /\ h.prefix \in {"none", "exc"}
    /\ h.last.src = src /\ h.last.kind = "exc"
    /\ h.last.exc \in RETRYABLE_EXCEPTIONS

\* the latest attempt of the loop with history h received a non-2xx status of
\* endpoint src that is outside the retryable set
LastIsPermanentError(h, src) ==
    /\ h.last.src = src /\ h.last.kind = "status"
    /\ h.last.status \notin RETRYABLE_STATUS_CODES
    /\ ~(h.last.status >= 200 /\ h.last.status <= 299)

\* the latest attempt of the loop with history h received a 2xx of endpoint
\* src, and every attempt before it a retryable status
RetryableThenSuccess(h, src) ==
    /\ h.prefix \in {"none", "status"}
    /\ h.last.src = src /\ h.last.kind = "status"
    /\ h.last.status >= 200 /\ h.last.status <= 299

\* ---------------------------------------------------------------- C1
\* C1: with max_retries = N >= 0, when every attempt of a call is answered
\* with a retryable status (the token endpoint for get_token/_refresh_token,
\* the resource endpoint for _post), the call made exactly N + 1 requests to
\* that endpoint and raised HTTPStatusError carrying the status of the final
\* response.
C1_RetryableStatusExhausts ==
    \A t \in Tasks :
        LET f == frame[t] IN
        /\ (max_retries >= 0 /\ Done(t, "post")
              /\ EveryAttemptRetryableStatus(f.post_hist, "resource"))
           => /\ f.res_reqs = max_retries + 1
              /\ f.result = Raised("HTTPStatusError", f.post_hist.last.status)
        /\ (max_retries >= 0 /\ IsTokenCall(t) /\ f.pc = "idle"
              /\ EveryAttemptRetryableStatus(f.auth_hist, "token"))
           => /\ f.tok_reqs = max_retries + 1
              /\ f.result = Raised("HTTPStatusError", f.auth_hist.last.status)

\* a _post with max_retries = 2 whose three requests were answered 500, .., 503
C1_Witness ==
    \E t \in Tasks :
        /\ max_retries = 2 /\ Done(t, "post")
        /\ frame[t].post_hist.prefix = "status"
        /\ frame[t].post_hist.last = StatusOutcome("resource", 503)
        /\ frame[t].res_reqs = 3
        /\ frame[t].result = Raised("HTTPStatusError", 503)

\* ---------------------------------------------------------------- C2
\* C2 as stated: a call that receives a non-2xx status outside the retryable
\* set makes exactly 1 request to that endpoint, performs no backoff wait and
\* raises HTTPStatusError, for every max_retries >= 0.
C2_AsStated ==
    \A t \in Tasks :
        LET f == frame[t] IN
        /\ (max_retries >= 0 /\ f.op = "post" /\ LastIsPermanentError(f.post_hist, "resource"))
           => /\ f.res_reqs = 1 /\ f.post_sleeps = <<>>
              /\ f.pc = "idle" /\ f.result = Raised("HTTPStatusError", f.post_hist.last.status)
        /\ (max_retries >= 0 /\ IsTokenCall(t) /\ LastIsPermanentError(f.auth_hist, "token"))
           => /\ f.tok_reqs = 1 /\ f.auth_sleeps = <<>>
              /\ f.pc = "idle" /\ f.result = Raised("HTTPStatusError", f.auth_hist.last.status)

\* C2: a non-2xx status outside the retryable set is never retried: the
\* attempt that receives it is the last of the call, which raises
\* HTTPStatusError carrying that status at once (no request and no backoff
\* wait follow it); when it answers the first attempt of the call, the call
\* made exactly 1 request to that endpoint and performed no backoff wait.
C2_PermanentErrorNotRetried ==
    \A t \in Tasks :
        LET f == frame[t] IN
        /\ (max_retries >= 0 /\ f.op = "post" /\ LastIsPermanentError(f.post_hist, "resource"))
           => /\ f.pc = "idle"
              /\ f.result = Raised("HTTPStatusError", f.post_hist.last.status)
              /\ f.res_reqs <= Len(f.post_sleeps) + 1
              /\ f.post_hist.prefix = "none" => (f.res_reqs = 1 /\ f.post_sleeps = <<>>)
        /\ (max_retries >= 0 /\ IsTokenCall(t) /\ LastIsPermanentError(f.auth_hist, "token"))
           => /\ f.pc = "idle"
              /\ f.result = Raised("HTTPStatusError", f.auth_hist.last.status)
              /\ f.tok_reqs = Len(f.auth_sleeps) + 1
              /\ f.auth_hist.prefix = "none" => (f.tok_reqs = 1 /\ f.auth_sleeps = <<>>)

\* a _post with max_retries = 2 whose first request was answered 401
C2_Witness ==
    \E t \in Tasks :
        /\ max_retries = 2 /\ Done(t, "post")
        /\ frame[t].post_hist = [prefix |-> "none", last |-> StatusOutcome("resource", 401)]
        /\ frame[t].res_reqs = 1 /\ frame[t].post_sleeps = <<>>
        /\ frame[t].result = Raised("HTTPStatusError", 401)

SecondGetToken(t) ==
    /\ Done(t, "get_token") /\ frame[t].result.kind = "return"
    /\ last_call.name = "get_token"
    /\ frame[t].done_at = now
    /\ last_call'.name = "get_token" /\ now' = now

\* the second call ended at once with the token of the first and sent nothing
ServedFromCache(t) ==
    /\ frame'[t].pc = "idle"
    /\ frame'[t].result = frame[t].result
    /\ frame'[t].tok_reqs = 0
    /\ access_token' = access_token /\ token_expiry' = token_expiry

\* C4 as stated: of two sequential get_token() calls with no time advance
\* and no invalidate_token() between them, the second returns the token of
\* the first and does no I/O.
C4_AsStated ==
    [][\A t \in SyncTasks : SecondGetToken(t) => ServedFromCache(t)]_vars

\* C4: of two sequential get_token() calls with no time advance and no
\* invalidate_token() between them, the second returns the token of the first
\* and does no I/O, provided the token the first returned is valid: issued by
\* the first call with expires_in > 60, or found valid in the cache by it.
C4_SecondCallServedFromCache ==
    [][\A t \in SyncTasks :
          (/\ SecondGetToken(t)
           /\ \/ frame[t].tok_reqs >= 1 /\ frame[t].body_ttl > 60
              \/ frame[t].tok_reqs = 0)
          => ServedFromCache(t)]_vars

\* a get_token() that followed a get_token(), at the clock reading at which
\* the token was issued with expires_in = 61, and was served from the cache
C4_Witness ==
    \E t \in SyncTasks :
        /\ Done(t, "get_token") /\ frame[t].prev_call.name = "get_token"
        /\ last_call.name = "get_token"
        /\ frame[t].tok_reqs = 0 /\ frame[t].result = Returned("T2")
        /\ frame[t].pre_token = "T2" /\ frame[t].pre_expiry = frame[t].start_at + 61
        /\ frame[t].done_at = frame[t].start_at

\* ---------------------------------------------------------------- C5
\* C5: when a token is cached with expiry E and the clock reads E - 60 or
\* more, get_token() is not served from the cache; when its exchange succeeds
\* on the first attempt it made exactly one token request, the cache holds the
\* new token and the new expiry (clock reading at the response + expires_in),
\* and the new token is returned.
C5_ExpiredTokenIsReplaced ==
    \A t \in Tasks :
        LET f == frame[t]
            expired == f.op = "get_token" /\ f.pre_token # None
                       /\ f.start_at >= f.pre_expiry - 60
        IN
        /\ (expired /\ f.pc = "idle" /\ max_retries >= 0) => f.tok_reqs >= 1
        /\ (/\ expired /\ f.pc = "idle" /\ last_call.name = "get_token"
            /\ f.auth_hist.prefix = "none" /\ f.auth_hist.last.kind = "status"
            /\ f.result.kind = "return")
           => /\ f.tok_reqs = 1
              /\ f.body_token # None
              /\ access_token = f.body_token
              /\ token_expiry = f.recv_at + f.body_ttl
              /\ f.recv_at = f.start_at
              /\ f.result = Returned(f.body_token)

\* "T1" is cached with expiry 61 and the clock reads 1 = 61 - 60: get_token()
\* made one request and now "T2" is cached, with expiry 1 + 61, and returned
C5_Witness ==
    \E t \in Tasks :
        /\ Done(t, "get_token") /\ last_call.name = "get_token"
        /\ frame[t].pre_token = "T1" /\ frame[t].pre_expiry = 61 /\ frame[t].start_at = 1
        /\ frame[t].tok_reqs = 1
        /\ access_token = "T2" /\ token_expiry = 62
        /\ frame[t].result = Returned("T2")

\* ---------------------------------------------------------------- C6
\* C6: the validity test is true exactly when a token is cached and the clock
\* reads less than expiry - 60 (so false without a token, false at exactly
\* expiry - 60 and false later); get_token() is served from the cache exactly
\* when the test held at its call.
C6_ValidityPredicate ==
    /\ is_token_valid <=> (access_token # None /\ now < token_expiry - 60)
    /\ access_token = None => ~is_token_valid
    /\ \A t \in Tasks :
          LET f == frame[t] IN
          f.op = "get_token"
          => ((f.pc = "idle" /\ f.tok_reqs = 0 /\ f.result = Returned(f.pre_token))
              <=> (f.pre_token # None /\ f.start_at < f.pre_expiry - 60))

\* a token is cached and the clock reads exactly expiry - 60; the get_token()
\* called at that reading went to the token endpoint
C6_Witness ==
    \E t \in Tasks :
        /\ access_token # None /\ now = token_expiry - 60 /\ now > 0
        /\ ~is_token_valid
        /\ frame[t].op = "get_token" /\ frame[t].pc = "auth_wait"
        /\ frame[t].pre_token = access_token /\ frame[t].pre_expiry = token_expiry
        /\ frame[t].start_at = now

\* ---------------------------------------------------------------- C7
\* C7: after invalidate_token() the cached token is None, the expiry is 0 and
\* the validity test is false; the next get_token() finds no token and goes to
\* the token endpoint, whatever the expiry of the invalidated token was.
C7_InvalidateForcesExchange ==
    /\ last_call.name = "invalidate"
       => (access_token = None /\ token_expiry = 0 /\ ~is_token_valid)
    /\ \A t \in Tasks :
          LET f == frame[t] IN
          (f.op = "get_token" /\ f.prev_call.name = "invalidate")
          => /\ f.pre_token = None /\ f.pre_expiry = 0
             /\ f.pc = "auth_loop" => f.tok_reqs = f.auth_attempt
             /\ (f.pc # "auth_loop" /\ max_retries >= 0) => f.tok_reqs >= 1
             /\ (f.pc = "idle" /\ max_retries < 0) => f.result = Raised("RuntimeError", 0)

\* a valid token was invalidated and the get_token() called next made a token
\* request and returned the token issued
C7_Witness ==
    \E t \in Tasks :
        /\ Done(t, "get_token")
        /\ frame[t].prev_call = [name |-> "invalidate", had_token |-> TRUE, was_valid |-> TRUE]
        /\ frame[t].tok_reqs = 1
        /\ frame[t].result = Returned(frame[t].body_token)

\* ---------------------------------------------------------------- C8
\* in this step invalidate_token() is called
InvalidateStep == last_call'.name = "invalidate" /\ now' = now

\* C8: invalidate_token() is idempotent: it ends without an error, leaves
\* no token and expiry 0; called when no token is cached, and called again
\* after an invalidate_token(), it leaves the state as it found it.
C8_InvalidateIdempotent ==
    [][InvalidateStep
       => /\ access_token' = None /\ token_expiry' = 0
          /\ frame' = frame
          /\ access_token = None
             => (access_token' = access_token /\ token_expiry' = token_expiry)
          /\ last_call.name = "invalidate"
             => (access_token' = access_token /\ token_expiry' = token_expiry)]_vars

\* invalidate_token() was called when no token was cached, after the clock
\* had advanced
C8_Witness ==
    /\ last_call = [name |-> "invalidate", had_token |-> FALSE, was_valid |-> FALSE]
    /\ access_token = None /\ token_expiry = 0
    /\ now > 0

\* ---------------------------------------------------------------- C9
\* C9: when every attempt of a call raises a retryable transport exception
\* (the token request of get_token/_refresh_token, the resource request of
\* _post), exactly max_retries + 1 attempts are made and the exception of the
\* last attempt is raised to the caller as it is.
C9_TransportErrorExhausts ==
    \A t \in Tasks :
        LET f == frame[t] IN
        /\ (max_retries >= 0 /\ Done(t, "post")
              /\ EveryAttemptRetryableException(f.post_hist, "resource"))
           => /\ f.res_reqs = max_retries + 1
              /\ f.attempt = max_retries
              /\ f.result = Raised(f.post_hist.last.exc, 0)
        /\ (max_retries >= 0 /\ IsTokenCall(t) /\ f.pc = "idle"
              /\ EveryAttemptRetryableException(f.auth_hist, "token"))
           => /\ f.tok_reqs = max_retries + 1
              /\ f.auth_attempt = max_retries
              /\ f.result = Raised(f.auth_hist.last.exc, 0)

\* a _refresh_token() with max_retries = 2 whose three requests raised
\* retryable exceptions, the last of them ReadTimeout
C9_Witness ==
    \E t \in Tasks :
        /\ max_retries = 2 /\ Done(t, "refresh")
        /\ frame[t].auth_hist = [prefix |-> "exc", last |-> ExcOutcome("token", "ReadTimeout", 0)]
        /\ frame[t].tok_reqs = 3
        /\ frame[t].result = Raised("ReadTimeout", 0)

\* --------------------------------------------------------------- C10
\* C10: the i-th wait of a call lasts retry_backoff * 2^(i-1) seconds, after a
\* retryable status and after a retryable exception alike; there is one wait
\* before each attempt but the first, at most max_retries waits, and an
\* attempt follows every wait (no wait after the final attempt).
C10_ExponentialBackoff ==
    \A t \in Tasks :
        LET f == frame[t]
            limit == IF max_retries > 0 THEN max_retries ELSE 0
        IN
        /\ \A i \in 1 .. Len(f.post_sleeps) : f.post_sleeps[i] = retry_backoff * 2 ^ (i - 1)
        /\ \A i \in 1 .. Len(f.auth_sleeps) : f.auth_sleeps[i] = retry_backoff * 2 ^ (i - 1)
        /\ Len(f.post_sleeps) = f.attempt /\ f.attempt <= limit
        /\ Len(f.auth_sleeps) = f.auth_attempt /\ f.auth_attempt <= limit
        /\ f.pc = "post_sleep"
           => (f.backoff = retry_backoff * 2 ^ f.attempt /\ f.attempt < max_retries)
        /\ f.pc = "auth_sleep"
           => (f.backoff = retry_backoff * 2 ^ f.auth_attempt /\ f.auth_attempt < max_retries)

\* a _post with retry_backoff = 2 that sent three resource requests and
\* waited 2 and then 4 seconds, once after a status and once after an exception
C10_Witness ==
    \E t \in Tasks :
        /\ retry_backoff = 2 /\ Done(t, "post")
        /\ frame[t].post_sleeps = <<2, 4>>
        /\ frame[t].res_reqs = 3
        /\ frame[t].post_hist.prefix = "other"
        /\ frame[t].last_exception # None

\* --------------------------------------------------------------- C11
\* C11 as stated: when the token acquisition of a _post fails with
\* HTTPStatusError, _post raises that error and no request at all is sent to
\* the resource endpoint.
C11_AsStated ==
    \A t \in Tasks :
        LET f == frame[t] IN
        (f.op = "post" /\ f.post_hist.last.src = "token"
           /\ f.post_hist.last.exc = "HTTPStatusError")
        => /\ f.pc = "idle"
           /\ f.result = Raised("HTTPStatusError", f.post_hist.last.status)
           /\ f.res_reqs = 0

\* C11: in every attempt of _post the token is obtained through get_token()
\* before the resource request is sent: while the attempt is still getting the
\* token it has sent no resource request, and the request carries the token
\* get_token() gave; when the token acquisition of an attempt fails with
\* HTTPStatusError, _post raises that error and the attempt sends no resource
\* request (none at all when it is the first attempt).
C11_TokenBeforeResource ==
    \A t \in Tasks :
        LET f == frame[t] IN
        f.op = "post"
        => /\ f.res_reqs <= f.attempt + 1
           /\ f.pc \in {"post_loop", "auth_loop", "auth_wait", "auth_sleep"}
              => f.res_reqs <= f.attempt
           /\ f.pc = "post_wait"
              => (f.hdr_token # None /\ f.hdr_token = access_token)
           /\ (f.post_hist.last.src = "token" /\ f.post_hist.last.exc = "HTTPStatusError")
              => /\ f.pc = "idle"
                 /\ f.result = Raised("HTTPStatusError", f.post_hist.last.status)
                 /\ f.res_reqs <= f.attempt
                 /\ f.post_hist.prefix = "none" => f.res_reqs = 0

\* a _post whose first token acquisition was answered 401: it raised
\* HTTPStatusError(401) and sent nothing to the resource endpoint
C11_Witness ==
    \E t \in Tasks :
        /\ Done(t, "post")
        /\ frame[t].post_hist =
              [prefix |-> "none", last |-> ExcOutcome("token", "HTTPStatusError", 401)]
        /\ frame[t].res_reqs = 0
        /\ frame[t].result = Raised("HTTPStatusError", 401)

\* --------------------------------------------------------------- C12
\* C12: _post returns a value only when the attempt it ends on received a 2xx
\* response, and then the value is the parsed body of that response; every
\* other way of ending raises an error; nothing is returned after a failure.
C12_ReturnsOnlyOn2xx ==
    \A t \in Tasks :
        LET f == frame[t]
            ok == /\ f.post_hist.last.src = "resource" /\ f.post_hist.last.kind = "status"
                  /\ f.post_hist.last.status >= 200 /\ f.post_hist.last.status <= 299
        IN
        f.op = "post"
        => /\ f.pc # "idle" => f.result.kind = "none"
           /\ f.pc = "idle" => f.result.kind \in {"return", "raise"}
           /\ f.result.kind = "return"
              => (ok /\ f.result.value = f.resp_body /\ f.resp_body \in Bodies)
           /\ f.result.kind = "raise" => f.result.exc # ""
           /\ (f.pc = "idle" /\ ~ok) => f.result.kind = "raise"

\* a _post whose earlier attempts raised transport errors and whose last
\* attempt received 200 with body "B2": it returned "B2"
C12_Witness ==
    \E t \in Tasks :
        /\ Done(t, "post")
        /\ frame[t].post_hist = [prefix |-> "exc", last |-> StatusOutcome("resource", 200)]
        /\ frame[t].resp_body = "B2"
        /\ frame[t].result = Returned("B2")

\* --------------------------------------------------------------- C13
\* the latest response of the token endpoint was a 2xx whose JSON body has no
\* access_token
LastLacksAccessToken(f) ==
    /\ f.auth_hist.last.src = "token" /\ f.auth_hist.last.kind = "status"
    /\ f.auth_hist.last.status >= 200 /\ f.auth_hist.last.status <= 299
    /\ f.body_json /\ f.body_token = None

\* the cache is as the call of task t found it
CacheAsFound(t) ==
    last_call.name \in {"get_token", "refresh"}
    => (access_token = frame[t].pre_token /\ token_expiry = frame[t].pre_expiry)

\* C13 as stated: when the token endpoint answers 2xx with a JSON body that
\* lacks access_token, the call raises after exactly one token request and no
\* backoff wait, and nothing of the response is stored in the cache.
C13_AsStated ==
    \A t \in Tasks :
        LET f == frame[t] IN
        (IsTokenCall(t) /\ LastLacksAccessToken(f))
        => /\ f.pc = "idle" /\ f.result.kind = "raise"
           /\ f.tok_reqs = 1 /\ f.auth_sleeps = <<>>
           /\ CacheAsFound(t)

\* C13: a 2xx of the token endpoint whose JSON body lacks access_token is a
\* hard failure that is not retried: the call raises KeyError at once (no
\* request and no wait follow), nothing of the response is stored in the
\* cache, and when the response answers the first attempt the call made
\* exactly one token request and no backoff wait.
C13_MissingAccessTokenIsFatal ==
    \A t \in Tasks :
        LET f == frame[t] IN
        (IsTokenCall(t) /\ LastLacksAccessToken(f))
        => /\ f.pc = "idle" /\ f.result = Raised("KeyError", 0)
           /\ f.tok_reqs = Len(f.auth_sleeps) + 1
           /\ f.auth_hist.prefix = "none" => (f.tok_reqs = 1 /\ f.auth_sleeps = <<>>)
           /\ CacheAsFound(t)

\* with "T2" cached and expired, get_token() received 200 with a body holding
\* expires_in only: it raised KeyError after one request, "T2" is still cached
C13_Witness ==
    \E t \in Tasks :
        /\ max_retries = 2 /\ Done(t, "get_token") /\ last_call.name = "get_token"
        /\ frame[t].auth_hist = [prefix |-> "none", last |-> StatusOutcome("token", 200)]
        /\ frame[t].body_json /\ frame[t].body_token = None /\ frame[t].body_ttl = 61
        /\ frame[t].tok_reqs = 1 /\ frame[t].auth_sleeps = <<>>
        /\ frame[t].result = Raised("KeyError", 0)
        /\ frame[t].pre_token = "T2" /\ access_token = "T2"
        /\ token_expiry = frame[t].pre_expiry

\* --------------------------------------------------------------- C14
\* C14 as stated: when _refresh_token() fails terminally (through get_token()
\* or called directly) the error is raised to the caller and no token is
\* cached afterwards, whatever was cached before the call.
C14_AsStated ==
    \A t \in Tasks :
        (IsTokenCall(t) /\ frame[t].pc = "idle" /\ frame[t].result.kind = "raise"
           /\ last_call.name \in {"get_token", "refresh"})
        => (access_token = None /\ token_expiry = 0)

\* --------------------------------------------------------------- C15
\* In this step get_token() is called and the call before it was the
\* get_token() of task t, which returned; the clock may have advanced since.
NextGetToken(t) ==
    /\ Done(t, "get_token") /\ frame[t].result.kind = "return"
    /\ last_call.name = "get_token"
    /\ last_call'.name = "get_token" /\ frame'[t] # frame[t]

\* the get_token() of task t was issued a token with expires_in <= 60
IssuedShortLived(t) ==
    /\ Done(t, "get_token") /\ frame[t].result.kind = "return"
    /\ frame[t].tok_reqs >= 1 /\ frame[t].body_ttl <= 60

\* C15: a token issued with expires_in of at most 60 seconds is never valid,
\* so the get_token() after the one it was issued to starts an exchange of its
\* own, finding that token in the cache: each of k sequential get_token()
\* calls performs an exchange.
C15_ShortLivedTokenNeverValid ==
    /\ [](\A t \in SyncTasks :
            (IssuedShortLived(t) /\ last_call.name = "get_token")
            => (access_token = frame[t].result.value /\ ~is_token_valid))
    /\ [][\A t \in SyncTasks :
            (IssuedShortLived(t) /\ NextGetToken(t))
            => /\ frame'[t].pc = "auth_loop" /\ frame'[t].tok_reqs = 0
               /\ frame'[t].pre_token = frame[t].result.value]_vars
    /\ [](\A t \in SyncTasks :
            LET f == frame[t] IN
            (f.op = "get_token" /\ f.pre_token # None /\ f.start_at >= f.pre_expiry - 60
               /\ f.pc = "idle" /\ max_retries >= 0)
            => f.tok_reqs >= 1)

\* "T1" was issued with expires_in = 60 to a get_token(); the get_token()
\* called next, at the same clock reading, made a token request of its own
C15_Witness ==
    \E t \in SyncTasks :
        /\ Done(t, "get_token") /\ frame[t].prev_call.name = "get_token"
        /\ frame[t].pre_token = "T1" /\ frame[t].pre_expiry = frame[t].start_at + 60
        /\ frame[t].tok_reqs = 1
        /\ frame[t].result.kind = "return"

C17_AsStated ==
    last_call.name = "close" => (access_token = None /\ token_expiry = 0)

\* --------------------------------------------------------------- C20
\* C20: retries nest: when a _post with max_retries = N >= 0 never finds a
\* valid token and every token request it causes raises a retryable transport
\* exception, it makes exactly (N + 1) * (N + 1) token requests and no
\* resource request, and then raises the transport exception.
C20_NestedRetries ==
    \A t \in Tasks :
        LET f == frame[t] IN
        (max_retries >= 0 /\ Done(t, "post") /\ f.tok_chain >= 0)
        => /\ f.tok_chain = (max_retries + 1) * (max_retries + 1)
           /\ f.res_reqs = 0
           /\ f.attempt = max_retries
           /\ f.last_exception \in RETRYABLE_EXCEPTIONS
           /\ f.result = Raised(f.last_exception, 0)
           /\ f.post_hist.last = ExcOutcome("token", f.last_exception, 0)

\* a _post with max_retries = 2 that made 9 token requests, each raising a
\* retryable transport exception, and no resource request
C20_Witness ==
    \E t \in Tasks :
        /\ max_retries = 2 /\ Done(t, "post")
        /\ frame[t].tok_chain = 9 /\ frame[t].res_reqs = 0
        /\ frame[t].result = Raised("ReadTimeout", 0)

\* --------------------------------------------------------------- C18
\* the get_token() of task t found no valid token in the cache when it began
ObservedInvalid(t) ==
    /\ frame[t].op = "get_token"
    /\ ~IsTokenValidAt(frame[t].pre_token, frame[t].pre_expiry, frame[t].start_at)

\* C18: on an AsyncAuthClient, whatever the other task is doing, a
\* get_token() that observed an invalid token runs its own exchange: it is
\* never held back at the head of its loop or while its request is in
\* flight (neither step waits for the other task), when it has ended it has
\* sent at least one token request of its own, and when it returned a token
\* that token is the access_token of the 2xx response to its own request.
\* So two such calls that overlap make two exchanges, not one.
C18_NoSingleFlight ==
    \A t \in Tasks :
        ObservedInvalid(t) =>
            /\ frame[t].pc = "auth_loop" => ENABLED AuthLoop(t)
            /\ frame[t].pc = "auth_wait" =>
                  /\ frame[t].tok_reqs >= 1
                  /\ ENABLED AsyncAuthResponse(t)
            /\ Done(t, "get_token") =>
                  /\ frame[t].tok_reqs >= 1
                  /\ frame[t].result.kind = "return" =>
                        /\ frame[t].auth_hist.last.src = "token"
                        /\ frame[t].auth_hist.last.kind = "status"
                        /\ IsSuccess(frame[t].auth_hist.last.status)
                        /\ frame[t].body_token # None
                        /\ frame[t].result = Returned(frame[t].body_token)

\* task 1 called get_token() first, task 2 called it next and still found
\* the cache empty, so the two calls overlapped; each sent one request, and
\* they returned different tokens, each that of its own response
C18_Witness ==
    /\ component = "AsyncAuthClient"
    /\ Done(1, "get_token") /\ Done(2, "get_token")
    /\ frame[1].prev_call.name = "init" /\ frame[2].prev_call.name = "get_token"
    /\ frame[1].pre_token = None /\ frame[2].pre_token = None
    /\ frame[1].tok_reqs = 1 /\ frame[2].tok_reqs = 1
    /\ frame[1].result = Returned("T1") /\ frame[1].body_token = "T1"
    /\ frame[2].result = Returned("T2") /\ frame[2].body_token = "T2"

\* --------------------------------------------------------------- C19
\* some response of the token endpoint, received at some clock reading up to
\* now, carries this token and gives this expiry
FromOneResponse(tok, expiry) ==
    \E data \in TokenBodies :
        /\ "access_token" \in DOMAIN data
        /\ "expires_in_text" \notin DOMAIN data
        /\ tok = data.access_token
        /\ \E at \in 0 .. now : expiry = ExpiryAt(at, ExpiresIn(data))

\* C19 as stated: in every reachable state the cached token and expiry are
\* either both cleared (None, 0) or both come from the same response of the
\* token endpoint.
C19_AsStated ==
    \/ access_token = None /\ token_expiry = 0
    \/ FromOneResponse(access_token, token_expiry)

\* --------------------------------------------------------------- C21
\* this step of task t sends a resource request of a _post
SendsResourceRequest(t) ==
    /\ frame[t].op = "post" /\ frame'[t].op = "post"
    /\ frame'[t].res_reqs = frame[t].res_reqs + 1

\* the cache after the step holds the token and the lifetime of one token
\* response received at this clock reading
StoredFreshToken ==
    \E data \in TokenBodies :
        /\ "access_token" \in DOMAIN data /\ "expires_in_text" \notin DOMAIN data
        /\ access_token' = data.access_token
        /\ token_expiry' = ExpiryAt(now, ExpiresIn(data))

\* C21: _post consults get_token() at every attempt.  An attempt that finds
\* the cached token valid sends the resource request with that token; an
\* attempt that finds it not valid (for instance because it stopped being
\* valid during the backoff wait) sends no resource request before a token
\* exchange, and the resource request that follows carries the token that
\* exchange has just stored.  So every resource request carries either a
\* token judged valid at that attempt or the token of an exchange made at
\* that attempt.
C21_TokenPerAttempt ==
    [][\A t \in SyncTasks :
          LET f == frame[t]
              g == frame'[t]
          IN
          /\ (f.op = "post" /\ f.pc = "post_loop" /\ InRange(f.attempt) /\ ~is_token_valid)
             => /\ g.pc = "auth_loop" /\ g.tok_reqs = 0 /\ g.res_reqs = f.res_reqs
                /\ g.attempt = f.attempt
          /\ (f.op = "post" /\ f.pc = "post_loop" /\ InRange(f.attempt) /\ is_token_valid)
             => /\ g.pc = "post_wait" /\ g.hdr_token = access_token
                /\ g.res_reqs = f.res_reqs + 1
          /\ SendsResourceRequest(t)
             => /\ g.pc = "post_wait" /\ g.attempt = f.attempt
                /\ g.hdr_token # None /\ g.hdr_token = access_token'
                /\ \/ /\ f.pc = "post_loop" /\ is_token_valid
                      /\ access_token' = access_token /\ token_expiry' = token_expiry
                   \/ /\ f.pc = "auth_wait" /\ StoredFreshToken]_vars

\* the token T2 cached with expiry 61 was valid at 0 when the first attempt
\* sent its resource request; after a backoff wait of a second the second
\* attempt found it not valid and has a token request in flight
C21_Witness ==
    \E t \in SyncTasks :
        /\ frame[t].op = "post" /\ frame[t].pc = "auth_wait"
        /\ frame[t].attempt = 1 /\ frame[t].tok_reqs = 1 /\ frame[t].res_reqs = 1
        /\ frame[t].post_sleeps = <<1>>
        /\ frame[t].post_hist.last.src = "resource"
        /\ access_token = "T2" /\ token_expiry = 61 /\ now = 1

\* --------------------------------------------------------------- C22
\* this step of task t is the outcome of a resource request: a response of
\* any status, or a transport exception
ResourceOutcomeStep(t) ==
    /\ frame[t].op = "post" /\ frame[t].pc = "post_wait"
    /\ frame'[t].pc # "post_wait"

\* the latest outcome the _post of task t has seen is one of the resource endpoint
AfterResourceOutcome(t) ==
    /\ frame[t].op = "post"
    /\ frame[t].post_hist.last.src = "resource"

\* C22: the outcome of a resource request, whatever its status (401
\* included) or exception, leaves the cached token and expiry as they were
\* and is no invalidate_token(); from then until the _post next obtains a
\* token the cache still holds the token the request carried; and the next
\* _post starts with that cache untouched, so that within the validity
\* window its first attempt sends the same token without a token request.
C22_ResourceOutcomeKeepsCache ==
    /\ [](\A t \in SyncTasks :
            AfterResourceOutcome(t)
            => (frame[t].hdr_token # None /\ access_token = frame[t].hdr_token))
    /\ [](last_call.name # "invalidate")
    /\ [][\A t \in SyncTasks :
            /\ ResourceOutcomeStep(t)
               => /\ access_token' = access_token /\ token_expiry' = token_expiry
                  /\ last_call' = last_call
                  /\ frame'[t].post_hist.last.src = "resource"
            /\ (AfterResourceOutcome(t) /\ frame[t].pc = "idle" /\ frame'[t] # frame[t])
               => /\ frame'[t].pc = "post_loop" /\ frame'[t].attempt = 0
                  /\ access_token' = access_token /\ token_expiry' = token_expiry
            /\ (frame[t].op = "post" /\ frame[t].pc = "post_loop"
                  /\ InRange(frame[t].attempt) /\ is_token_valid)
               => /\ frame'[t].tok_reqs = 0 /\ frame'[t].res_reqs = frame[t].res_reqs + 1
                  /\ frame'[t].hdr_token = access_token]_vars

\* a _post has raised the 401 of the resource endpoint, and the token its
\* request carried is still cached and still valid
C22_Witness ==
    \E t \in SyncTasks :
        /\ Done(t, "post")
        /\ frame[t].result = Raised("HTTPStatusError", 401)
        /\ frame[t].post_hist.last = StatusOutcome("resource", 401)
        /\ frame[t].hdr_token = "T2" /\ access_token = "T2" /\ token_expiry = 61
        /\ is_token_valid

\* --------------------------------------------------------------- C30
\* the call of task t has sent a request, to either endpoint
SentSomething(t) ==
    \/ frame[t].res_reqs > 0
    \/ frame[t].tok_reqs > 0
    \/ frame[t].tok_chain # 0
    \/ frame[t].post_hist.last.kind # "none"
    \/ frame[t].auth_hist.last.kind # "none"

\* C30: the code after either retry loop is reached iff max_retries < 0.
\* With max_retries >= 0 the head of a loop is only ever reached inside its
\* range, and a call that has ended returned a result or raised the error
\* of an attempt, after at least one attempt, never the RuntimeError of the
\* fallback.  With max_retries < 0 every _post, get_token() and
\* _refresh_token() ends with that RuntimeError and no request is ever sent.
C30_FallbackIffNegative ==
    \A t \in Tasks :
        LET f == frame[t] IN
        /\ (f.op = "post" /\ f.pc = "post_loop")
           => (InRange(f.attempt) <=> max_retries >= 0)
        /\ f.pc = "auth_loop" => (InRange(f.auth_attempt) <=> max_retries >= 0)
        /\ (f.pc = "idle" /\ f.result.kind # "none")
           => (f.result = Raised("RuntimeError", 0) <=> max_retries < 0)
        /\ (f.pc = "idle" /\ f.result.kind = "raise" /\ max_retries >= 0)
           => (f.result.exc # "RuntimeError" /\ SentSomething(t))
        /\ max_retries < 0
           => /\ ~SentSomething(t)
              /\ f.pc \notin {"post_wait", "auth_wait", "post_sleep", "auth_sleep"}
              /\ access_token = None /\ client = None

\* a _post and a _refresh_token() of a client constructed with max_retries = -1
\* have ended with the RuntimeError of the fallback
C30_Witness ==
    /\ max_retries < 0
    /\ \E t \in SyncTasks :
          /\ frame[t].op \in {"post", "refresh", "get_token"}
          /\ frame[t].pc = "idle"
          /\ frame[t].result = Raised("RuntimeError", 0)
          /\ frame[t].res_reqs = 0 /\ frame[t].tok_reqs = 0

\* --------------------------------------------------------------- C26
\* task t is inside _refresh_token
InRefresh(t) == frame[t].pc \in {"auth_loop", "auth_wait", "auth_sleep"}

\* C26: the connection of a token exchange is the attempt's own, never the
\* executor's.  It is open exactly while the attempt's request is in flight
\* and, on the retryable-status path, during the backoff wait inside the
\* with block; it is closed at the head of every attempt and whenever no
\* call is inside _refresh_token.  No step inside _refresh_token creates,
\* closes or replaces the executor's connection, and an AuthClient used on
\* its own never has one.
C26_TokenConnectionIsOwn ==
    /\ [](\A t \in Tasks :
            LET f == frame[t] IN
            /\ f.pc = "auth_wait" => f.auth_conn
            /\ f.auth_conn => f.pc \in {"auth_wait", "auth_sleep"}
            /\ ~InRefresh(t) => ~f.auth_conn)
    /\ [](component = "AuthClient" => (client = None /\ open_conns = 0))
    /\ [][\A t \in Tasks :
            (InRefresh(t) /\ frame'[t] # frame[t])
            => (client' = client /\ open_conns' = open_conns)]_vars

\* the second token attempt of a _post has its own connection open next to
\* the executor's; the connection of the first attempt was closed at the
\* head of the loop
C26_Witness ==
    \E t \in SyncTasks :
        /\ frame[t].op = "post" /\ frame[t].pc = "auth_wait"
        /\ frame[t].auth_attempt = 1 /\ frame[t].tok_reqs = 2
        /\ frame[t].auth_conn
        /\ client # None /\ open_conns = 1

\* --------------------------------------------------------------- C23
\* C23: every _post, get_token() and _refresh_token() that has begun ends,
\* by returning or raising, whatever the endpoints answer, provided every
\* HTTP call and every backoff wait completes; and at no moment has a _post
\* sent more than max_retries + 1 resource requests or a _refresh_token more
\* than max_retries + 1 token requests.
C23_CallsTerminate ==
    /\ \A t \in SyncTasks : (frame[t].pc # "idle") ~> (frame[t].pc = "idle")
    /\ [](\A t \in SyncTasks :
            LET f == frame[t]
                most == IF max_retries >= 0 THEN max_retries + 1 ELSE 0
            IN
            /\ f.res_reqs <= most /\ f.tok_reqs <= most
            /\ f.res_reqs <= f.attempt + 1 /\ f.tok_reqs <= f.auth_attempt + 1
            /\ f.attempt <= most /\ f.auth_attempt <= most
            /\ f.pc = "idle" => (f.op = "none" \/ f.result.kind \in {"return", "raise"}))

\* a _post that used every attempt of its loop has ended
C23_Witness ==
    \E t \in SyncTasks :
        /\ Done(t, "post") /\ max_retries = MaxRetriesBound
        /\ frame[t].res_reqs = max_retries + 1
        /\ Len(frame[t].post_sleeps) = max_retries

\* --------------------------------------------------------------- C28
\* this step ends a token exchange successfully with a lifetime above the buffer
GoodExchangeStep ==
    \E t \in SyncTasks :
        /\ frame[t].pc = "auth_wait" /\ frame'[t].pc = "idle"
        /\ frame'[t].result.kind = "return"
        /\ frame'[t].body_ttl > TOKEN_BUFFER

\* C28 as stated: a manager that is not valid becomes valid only by a step
\* that ends a token exchange successfully with expires_in above 60; no
\* failed exchange, invalidate_token() or passage of time makes it valid.
C28_AsStated ==
    [][(~is_token_valid /\ IsTokenValidAt(access_token', token_expiry', now'))
       => GoodExchangeStep]_vars

\* --------------------------------------------------------------- C29
\* this step is a close() (one that changes nothing is a stuttering step)
CloseStep == last_call'.name = "close" /\ frame' = frame /\ now' = now

\* C29: close() on a client that holds no connection changes nothing;
\* every close() leaves the client without a connection; the first attempt
\* of a _post made after it creates a connection again; and a connection,
\* once created, stays the client's open connection through every step
\* that is not a close().
C29_CloseIdempotentNotTerminal ==
    /\ [](\A t \in SyncTasks :
            LET f == frame[t] IN
            (f.op = "post" /\ last_call.name = "post" /\ max_retries >= 0
               /\ (f.pc # "post_loop" \/ f.attempt > 0))
            => (client # None /\ open_conns = 1))
    /\ [][/\ (CloseStep /\ client = None)
             => /\ client' = None /\ open_conns' = open_conns /\ open_conns = 0
                /\ access_token' = access_token /\ token_expiry' = token_expiry
          /\ CloseStep => (client' = None /\ open_conns' = 0)
          /\ \A t \in SyncTasks :
                (frame[t].op = "post" /\ frame[t].pc = "post_loop"
                   /\ InRange(frame[t].attempt) /\ client = None)
                => (client' # None /\ open_conns' = 1)
          /\ (client # None /\ ~CloseStep)
             => (client' = client /\ open_conns' = open_conns)]_vars

\* a _post called right after a close() has ended, and the connection it
\* created is open
C29_Witness ==
    \E t \in SyncTasks :
        /\ Done(t, "post") /\ frame[t].prev_call.name = "close"
        /\ frame[t].res_reqs >= 1
        /\ last_call.name = "post"
        /\ client # None /\ open_conns = 1

\* ------------------------- an AsyncInsightsClient shared by two tasks
\* The tasks of one event loop await _post() and close() on one client.  A
\* coroutine runs until it awaits something that is not ready: a response,
\* asyncio.sleep(), or aclose() of a connection that has a transport to shut.
sync_vars == <<component, max_retries, retry_backoff, access_token, token_expiry,
               client, open_conns, frame, last_call>>

InitAio ==
    /\ component = "AsyncInsightsClient"
    /\ max_retries \in {0, 1}
    /\ retry_backoff = 1
    /\ access_token = None
    /\ token_expiry = 0
    /\ client = None
    /\ open_conns = 0
    /\ now = 0
    /\ frame = [t \in Tasks |-> IdleFrame]
    /\ last_call = Called("init")
    /\ twin = NewTwin

\* what the two endpoints are made to answer the tasks with
AioStatuses == {200, 503}
AioBodies == {"B1", NotJson}
AioTokenBodies == {[access_token |-> "T1"]}

\* Nothing between the head of a loop and client.post() suspends the
\* coroutine (_get_client awaits nothing, entering the async with block does
\* not wait): a task that is at the head of a loop runs on to its request.
AioToAwait(m, t) ==
    LET a == IF m.frame[t].pc = "post_loop" THEN AioPostLooped(m, t) ELSE m IN
    IF a.frame[t].pc = "auth_loop" THEN AioAuthLooped(a, t) ELSE a

\* task t is in asyncio.sleep(backoff) and its timer is not due
InBackoff(t) ==
    /\ twin.frame[t].pc \in {"post_sleep", "auth_sleep"}
    /\ now < twin.frame[t].wake_at

\* the call task t begins is noted as overlapping the backoff waits of others
Overlapping(m, t) ==
    [m EXCEPT !.frame[t].overlapped = \E a \in Tasks \ {t} : InBackoff(a)]

\* task t has resumed from its wait: no call overlaps it any longer
Resumed(m, t) ==
    [m EXCEPT !.frame = [b \in Tasks |->
         IF b = t THEN m.frame[b] ELSE [m.frame[b] EXCEPT !.overlapped = FALSE]]]

\* variant: a task in its backoff wait keeps the others from starting a call
AioStartPostBlocked(t) ==
    /\ twin.frame[t].pc = "idle"
    /\ now <= MaxTime
    /\ \A a \in Tasks : twin.frame[a].pc \notin {"post_sleep", "auth_sleep"}
    /\ twin' = Overlapping(AioToAwait(AioStartedPost(twin, t), t), t)
    /\ UNCHANGED <<sync_vars, now>>

\* a task awaits client._post(): it runs up to its first request
AioStartPost(t) ==
    /\ twin.frame[t].pc = "idle"
    /\ now <= MaxTime
    /\ twin' = Overlapping(AioToAwait(AioStartedPost(twin, t), t), t)
    /\ UNCHANGED <<sync_vars, now>>

AioPostResponse(t) ==
    /\ twin.frame[t].pc = "post_wait"
    /\ \E status \in AioStatuses :
       \E body \in BodiesRead(status, AioBodies, NotJson) :
          twin' = AioPostResponded(twin, t, status, body)
    /\ UNCHANGED <<sync_vars, now>>

AioPostException(t) ==
    /\ twin.frame[t].pc = "post_wait"
    /\ \E e \in AsyncTransportErrors : twin' = AioPostFailed(twin, t, e)
    /\ UNCHANGED <<sync_vars, now>>

AioAuthResponse(t) ==
    /\ twin.frame[t].pc = "auth_wait"
    /\ \E status \in AioStatuses :
       \E data \in BodiesRead(status, AioTokenBodies, [not_json |-> TRUE]) :
          twin' = AioAuthResponded(twin, t, status, data)
    /\ UNCHANGED <<sync_vars, now>>

AioAuthException(t) ==
    /\ twin.frame[t].pc = "auth_wait"
    /\ \E e \in AsyncTransportErrors : twin' = AioAuthFailed(twin, t, e)
    /\ UNCHANGED <<sync_vars, now>>

\* the timer of asyncio.sleep() is due: the task resumes
AioPostWake(t) ==
    /\ twin.frame[t].pc = "post_sleep"
    /\ now >= twin.frame[t].wake_at
    /\ twin' = Resumed(AioToAwait(AioPostWoken(twin, t), t), t)
    /\ UNCHANGED <<sync_vars, now>>

AioAuthWake(t) ==
    /\ twin.frame[t].pc = "auth_sleep"
    /\ now >= twin.frame[t].wake_at
    /\ twin' = Resumed(AioToAwait(AioAuthWoken(twin, t), t), t)
    /\ UNCHANGED <<sync_vars, now>>

\* a task awaits client.close(); callers close a client a bounded number of
\* times
AioCloseBegin(t) ==
    /\ twin.frame[t].pc = "idle"
    /\ now <= MaxTime
    /\ twin.made < MaxConns
    /\ twin' = AioCloseBegun(twin, t)
    /\ UNCHANGED <<sync_vars, now>>

AioCloseEnd(t) ==
    /\ twin.frame[t].pc = "closing"
    /\ twin' = AioCloseEnded(twin, t)
    /\ UNCHANGED <<sync_vars, now>>

\* the clock of the event loop advances by a second
AioTick ==
    /\ \/ now < MaxTime
       \/ \E t \in Tasks : /\ twin.frame[t].pc \in {"post_sleep", "auth_sleep"}
                            /\ twin.frame[t].wake_at > now
    /\ now' = now + 1
    /\ UNCHANGED <<sync_vars, twin>>

StepAio(t) ==
    \/ AioStartPost(t)
    \/ AioPostResponse(t)
    \/ AioPostException(t)
    \/ AioPostWake(t)
    \/ AioAuthResponse(t)
    \/ AioAuthException(t)
    \/ AioAuthWake(t)
    \/ AioCloseBegin(t)
    \/ AioCloseEnd(t)

NextAio ==
    \/ \E t \in Tasks : StepAio(t)
    \/ AioTick

SpecAio == InitAio /\ [][NextAio]_vars

\* C25: the connection resource of the executor is created lazily and never
\* duplicated: a client holds no connection from construction until its
\* first post(), a new one is created only when none is held, and in every
\* reachable state at most one connection created by the executor is open.
\* Stated for the asynchronous client shared by tasks.
CreatesConnection == twin'.made > twin.made

C25_AsStated ==
    /\ [](/\ (twin.made = 0 => twin.client = 0 /\ twin.open = {})
          /\ Cardinality(twin.open) <= 1)
    /\ [][CreatesConnection => twin.client = 0]_vars

\* C27: in the asynchronous variant a backoff wait suspends only the task
\* that is retrying.  While a task is in the backoff wait of its _post() or
\* of the token refresh inside it, another task that is idle can start a
\* _post(), one that awaits a response can receive it, and no step of the
\* other task resumes or changes the waiting task.
Coroutine(f) == [f EXCEPT !.overlapped = FALSE]

C27_BackoffSuspendsOnlyRetrier ==
    /\ [](\A a \in Tasks : \A b \in Tasks \ {a} :
            InBackoff(a) =>
               /\ (twin.frame[b].pc = "idle" /\ now <= MaxTime
                      => ENABLED AioStartPost(b))
               /\ (twin.frame[b].pc = "post_wait" => ENABLED AioPostResponse(b))
               /\ (twin.frame[b].pc = "auth_wait" => ENABLED AioAuthResponse(b)))
    /\ [][\A a \in Tasks : \A b \in Tasks \ {a} :
            InBackoff(a) /\ StepAio(b)
               => Coroutine(twin'.frame[a]) = Coroutine(twin.frame[a])]_vars

\* a task is still in its backoff wait, and a _post() of the other task that
\* began during that wait has sent its request and returned a body
C27_Witness ==
    \E a \in Tasks : \E b \in Tasks \ {a} :
       /\ InBackoff(a)
       /\ twin.frame[b].pc = "idle"
       /\ twin.frame[b].op = "post"
       /\ twin.frame[b].overlapped
       /\ twin.frame[b].result = Returned("B1")

\* ------------------ the blocking and the non-blocking variant side by side
\* One caller drives a blocking client (an AuthClient or an InsightsClient,
\* the variables of Spec) and its asynchronous counterpart (twin, task 1)
\* with the same configuration, the same clock and the same answers of the
\* two endpoints.  The asynchronous client takes a step and notes the answer
\* it was given; the blocking client then takes its step on the same answer.
\* A backoff wait is taken by the blocking client first: its sleep moves the
\* clock, and the timer of asyncio.sleep() is then due.
PairStatuses == {200, 401, 503}
PairErrors == {"ReadTimeout", "PoolTimeout"}

PairInputs ==
    {[NoInput EXCEPT !.kind = k] :
        k \in {"start", "post_loop", "auth_loop", "invalidate", "close"}}
    \cup {[NoInput EXCEPT !.kind = "post_response", !.status = st, !.body = b] :
             st \in PairStatuses, b \in {"B1", NotJson}}
    \cup {[NoInput EXCEPT !.kind = "post_error", !.exc = e] : e \in PairErrors}
    \cup {[NoInput EXCEPT !.kind = "auth_response", !.status = st, !.data = d] :
             st \in PairStatuses, d \in TokenBodies}
    \cup {[NoInput EXCEPT !.kind = "auth_error", !.exc = e] : e \in PairErrors}

\* the position at which the coroutine of task t takes input i; a body is
\* read only from a 2xx response
AioAccepts(m, t, i) ==
    LET pc == m.frame[t].pc IN
    CASE i.kind = "start" -> pc = "idle" /\ now <= MaxTime
      [] i.kind = "post_loop" -> pc = "post_loop"
      [] i.kind = "auth_loop" -> pc = "auth_loop"
      [] i.kind = "post_response" ->
            pc = "post_wait" /\ i.body \in BodiesRead(i.status, {"B1", NotJson}, NotJson)
      [] i.kind = "post_error" -> pc = "post_wait"
      [] i.kind = "auth_response" ->
            pc = "auth_wait"
            /\ i.data \in BodiesRead(i.status, TokenBodies, [not_json |-> TRUE])
      [] i.kind = "auth_error" -> pc = "auth_wait"
      [] i.kind = "invalidate" ->
            pc = "idle" /\ now <= MaxTime /\ component = "AuthClient"
      [] i.kind = "close" ->
            /\ pc = "idle" /\ now <= MaxTime /\ component = "InsightsClient"
            /\ m.made < MaxConns

\* the asynchronous client after the step of task t on input i; a single
\* caller awaits close() to its end
AioTaken(m, t, i) ==
    CASE i.kind = "start" ->
            IF component = "InsightsClient" THEN AioStartedPost(m, t)
            ELSE AioStartedGetToken(m, t)
      [] i.kind = "post_loop" -> AioPostLooped(m, t)
      [] i.kind = "auth_loop" -> AioAuthLooped(m, t)
      [] i.kind = "post_response" -> AioPostResponded(m, t, i.status, i.body)
      [] i.kind = "post_error" -> AioPostFailed(m, t, i.exc)
      [] i.kind = "auth_response" -> AioAuthResponded(m, t, i.status, i.data)
      [] i.kind = "auth_error" -> AioAuthFailed(m, t, i.exc)
      [] i.kind = "invalidate" -> AioInvalidated(m)
      [] i.kind = "close" ->
            IF m.client # 0 THEN AioCloseEnded(AioCloseBegun(m, t), t) ELSE m

\* What a caller and the two endpoints can tell of the blocking client: the
\* token cache, the connection held, the position, the result, and while a
\* call runs its counters, the requests it has sent, the token it sent and
\* the waits it has taken.
SyncView ==
    LET f == frame[1] IN
    [cache |-> <<access_token, token_expiry>>,
     held |-> client # None, open |-> open_conns,
     pc |-> f.pc, op |-> f.op, result |-> f.result,
     locals |-> IF f.pc = "idle" THEN <<>>
                ELSE <<f.attempt, f.last_exception, f.auth_attempt,
                       f.auth_last_exception, f.backoff, f.hdr_token, f.auth_conn,
                       f.res_reqs, f.tok_reqs, f.post_sleeps, f.auth_sleeps>>]

\* the same of the asynchronous client
TwinView ==
    LET f == twin.frame[1] IN
    [cache |-> <<twin.access_token, twin.token_expiry>>,
     held |-> twin.client # 0, open |-> Cardinality(twin.open),
     pc |-> f.pc, op |-> f.op, result |-> f.result,
     locals |-> IF f.pc = "idle" THEN <<>>
                ELSE <<f.attempt, f.last_exception, f.auth_attempt,
                       f.auth_last_exception, f.backoff, f.hdr_token, f.auth_conn,
                       f.res_reqs, f.tok_reqs, f.post_sleeps, f.auth_sleeps>>]

Synced == SyncView = TwinView

InitPair == Init /\ max_retries <= 1

\* the asynchronous client takes a step
PairLead ==
    /\ Synced
    /\ \E i \in PairInputs :
          /\ AioAccepts(twin, 1, i)
          /\ twin' = [AioTaken(twin, 1, i) EXCEPT !.input = i]
    /\ UNCHANGED <<sync_vars, now>>

\* the blocking client takes the same step on the same input
PairFollow ==
    LET i == twin.input IN
    /\ ~Synced
    /\ \/ i.kind = "start" /\ (StartPost(1) \/ StartGetToken(1))
       \/ i.kind = "post_loop" /\ PostLoop(1)
       \/ i.kind = "auth_loop" /\ AuthLoop(1)
       \/ i.kind = "post_response" /\ frame[1].pc = "post_wait"
             /\ PostRespond(1, i.status, i.body)
       \/ i.kind = "post_error" /\ frame[1].pc = "post_wait" /\ PostFail(1, i.exc)
       \/ i.kind = "auth_response" /\ frame[1].pc = "auth_wait"
             /\ AuthRespond(1, i.status, i.data)
       \/ i.kind = "auth_error" /\ frame[1].pc = "auth_wait" /\ AuthFail(1, i.exc)
       \/ i.kind = "invalidate" /\ Invalidate
       \/ i.kind = "close" /\ Close

\* time.sleep(backoff) of the blocking client
PairSleep == Synced /\ (PostSleep(1) \/ AuthSleep(1))

\* asyncio.sleep(backoff) of the asynchronous client returns when due
PairWake ==
    LET f == twin.frame[1] IN
    /\ ~Synced
    /\ f.pc \in {"post_sleep", "auth_sleep"}
    /\ now >= f.wake_at
    /\ twin' = IF f.pc = "post_sleep" THEN AioPostWoken(twin, 1)
               ELSE AioAuthWoken(twin, 1)
    /\ UNCHANGED <<sync_vars, now>>

\* idle time passes for both
PairTick == Synced /\ Tick

NextPair ==
    \/ PairLead
    \/ PairFollow
    \/ PairSleep
    \/ PairWake
    \/ PairTick

SpecPair == InitPair /\ [][NextPair]_vars

\* C24: the blocking and the non-blocking variant are behaviourally
\* equivalent for a single caller.  Given the same clock readings and the
\* same responses of the token endpoint and of the resource endpoint, the
\* asynchronous client and the blocking client send the same requests, wait
\* the same backoff durations, update the token cache alike and end with the
\* same result or error: whenever one of them is a step ahead, the other can
\* take its step, and after it the two agree again.
C24_VariantsEquivalent ==
    /\ [](~Synced => ENABLED (PairFollow \/ PairWake))
    /\ [][~Synced => Synced']_vars

\* both clients have ended a _post() alike after a refused token request, a
\* token exchange, a backoff wait and a second resource request
C24_Witness ==
    /\ Synced
    /\ component = "InsightsClient"
    /\ twin.frame[1].pc = "idle"
    /\ twin.frame[1].op = "post"
    /\ twin.frame[1].result.kind \in {"return", "raise"}
    /\ frame[1].res_reqs >= 2
    /\ frame[1].post_sleeps # <<>>
    /\ access_token # None /\ twin.access_token # None

====
